---------------------------- MODULE Spec2Model ----------------------------
(***************************************************************************)
(* NeuroResolv: the progression & adaptation engine of the backend.        *)
(*                                                                         *)
(* The database tables are the state; every request handler of            *)
(* app/api/progress.py and app/api/resolutions.py is a sequence of steps   *)
(* cut at the awaits where another request may run (a database round trip  *)
(* or an oracle call).  A request works on a SQLAlchemy session: rows are  *)
(* loaded into it, attributes are assigned, and the commit writes, for     *)
(* every loaded row, the attributes whose value differs from the loaded    *)
(* one (flush_row).                                                        *)
(*                                                                         *)
(* Scores are integers in percent (0.5 is 50).  Calendar days are          *)
(* integers.                                                               *)
(***************************************************************************)
EXTENDS Integers, Sequences, FiniteSets, TLC

\* ------------------------------------------------------------------ bounds
MaxDay == 4
MaxLogs == 3
MaxQuizzes == 2
MaxMilestoneId == 5
MaxManual == 2
MaxFeedback == 1
MaxStreak == 10         \* the streak counters handed to the likelihood score
MaxMilestoneDicts == 4  \* the milestones handed to the likelihood score
MaxRecentLogs == 8      \* the progress logs handed to the likelihood score
MaxClock == 60          \* the days handed to the refresh date
MaxSessionDays == 1     \* duration_days: the sessions of a timeline
MaxAttempts == 3        \* the attempts counted by a learning metric

\* ---------------------------------------------------------------- universe
ResolutionIds == {1}
WeeklyGoalIds == {1}
\* the slots of the requests in flight
RequestIds == {1, 2}
\* two different answer sheets a client may submit
AnswerSheets == {"a", "b"}

\* None of a nullable Date column / of a nullable Float column
NoDate == -1
NoScore == -1
\* None of a nullable Boolean column is "None"; its values are "True", "False"
PyBool(b) == IF b THEN "True" ELSE "False"

VARIABLES
    today,                 \* date.today()
    resolutions,           \* table resolutions: id -> row
    streaks,               \* table streaks: resolution_id -> row (unique)
    progress_logs,         \* table progress_logs: sequence, id = index
    verification_quizzes,  \* table verification_quizzes: sequence, id = index
    milestones,            \* table milestones: set of rows
    next_milestone_id,     \* the milestones id sequence
    ai_feedback,           \* table ai_feedback: sequence, id = index
    weekly_goals,          \* table weekly_goals: sequence, id = index
    north_star_goals,      \* table north_star_goals: sequence, id = index
    daily_sessions,        \* table daily_sessions: sequence, id = index
    quizzes,               \* table quizzes with its questions: session_id -> row
    current_day,           \* column current_day of resolutions: id -> day
    learning_metrics,      \* table learning_metrics: set of rows
    requests,              \* the requests in flight: slot -> session
    last_response,         \* the response of the request that ended last
    call,                  \* the arguments of a call of a pure function
    returned               \* what the call returned (NoScore: not yet)

vars == <<today, resolutions, streaks, progress_logs, verification_quizzes,
          milestones, next_milestone_id, ai_feedback, weekly_goals,
          north_star_goals, daily_sessions, quizzes, current_day,
          learning_metrics, requests, last_response, call, returned>>

progress_vars == <<streaks, progress_logs, verification_quizzes>>
artifact_vars == <<weekly_goals, north_star_goals>>
roadmap_vars == <<milestones, next_milestone_id, ai_feedback, artifact_vars>>
session_vars == <<daily_sessions, quizzes, current_day, learning_metrics>>
pure_vars == <<call, returned>>

\* --------------------------------------------------------------------- rows
\* Resolution(...) with the column defaults
Resolution(user) ==
    [user_id |-> user, cadence |-> "daily", status |-> "active",
     current_milestone |-> 0, roadmap_generated |-> FALSE,
     roadmap_needs_refresh |-> FALSE, goal_likelihood_score |-> NoScore,
     next_roadmap_refresh |-> NoDate]

\* Streak(resolution_id=...) with the column defaults
Streak ==
    [current_streak |-> 0, longest_streak |-> 0, total_verified_days |-> 0,
     last_log_date |-> NoDate, last_verified_date |-> NoDate]

\* ProgressLog(resolution_id=..., date=today, ...) with the column defaults
ProgressLog(rid, date) ==
    [resolution_id |-> rid, date |-> date, verified |-> FALSE,
     verification_score |-> NoScore, concepts_claimed |-> {}]

\* VerificationQuiz(progress_log_id=..., questions=..., quiz_type=...)
VerificationQuiz(log_id, questions, quiz_type) ==
    [progress_log_id |-> log_id, questions |-> questions,
     quiz_type |-> quiz_type, responses |-> "none", score |-> NoScore,
     passed |-> "None", is_completed |-> FALSE]

\* ------------------------------------------------------------- the session
\* An idle slot; the fields of a session in flight:
\*   op, pc      the handler and the await it is suspended at
\*   user, id    the authenticated user and the path parameter
\*   day         the handler's local `today`
\*   crossed     midnight passed while the request was in flight
\*   has_streak, streak   the Streak row as loaded (None: has_streak = FALSE)
\*   log, quiz   the ProgressLog and VerificationQuiz rows as loaded
\*   answers     the request body of a submission
\*   grading     the grading result the handler holds
\*   calls       the calls of its oracle (quiz generation, grading) the
\*               request has issued
NoGrading == [overall_score |-> NoScore, passed |-> FALSE, concepts |-> {}]

Idle ==
    [op |-> "none", pc |-> "idle", user |-> 0, id |-> 0, day |-> NoDate,
     crossed |-> FALSE, has_streak |-> FALSE, streak |-> Streak,
     log |-> ProgressLog(0, NoDate),
     quiz |-> VerificationQuiz(0, <<>>, "none"),
     answers |-> "none", grading |-> NoGrading, calls |-> 0]

\* the response of a request: the HTTP status, whether an oracle was called,
\* the quiz the body carries, whether the recovery analysis was requested
Response(code, oracle, quiz_id) ==
    [code |-> code, detail |-> "", oracle |-> oracle, quiz_id |-> quiz_id,
     analysis |-> FALSE]

NoBody(code) == Response(code, FALSE, 0)

\* raise HTTPException(status_code=..., detail=...)
HTTPException(code, detail) == [NoBody(code) EXCEPT !.detail = detail]

\* The state as one value: the handlers' steps are operators from a state to
\* the state after the step.
World ==
    [today |-> today, resolutions |-> resolutions, streaks |-> streaks,
     progress_logs |-> progress_logs,
     verification_quizzes |-> verification_quizzes,
     milestones |-> milestones, next_milestone_id |-> next_milestone_id,
     ai_feedback |-> ai_feedback, requests |-> requests,
     last_response |-> last_response]

Becomes(w) ==
    /\ today' = w.today
    /\ resolutions' = w.resolutions
    /\ streaks' = w.streaks
    /\ progress_logs' = w.progress_logs
    /\ verification_quizzes' = w.verification_quizzes
    /\ milestones' = w.milestones
    /\ next_milestone_id' = w.next_milestone_id
    /\ ai_feedback' = w.ai_feedback
    /\ requests' = w.requests
    /\ last_response' = w.last_response
    /\ UNCHANGED <<artifact_vars, session_vars, pure_vars>>

\* session.commit(): the UPDATE of a loaded row sets the attributes whose
\* value differs from the loaded one
flush_row(row, loaded, new) ==
    [f \in DOMAIN row |-> IF new[f] # loaded[f] THEN new[f] ELSE row[f]]

InFlight(r) == requests[r].pc # "idle"

\* request r is suspended in handler op at pc
At(w, r, op, pc) == w.requests[r].op = op /\ w.requests[r].pc = pc

\* the handler ends: its slot is free again and its response is the last one
Respond(w, r, resp) ==
    [w EXCEPT !.requests[r] = Idle, !.last_response = resp]

Suspend(w, r, session) == [w EXCEPT !.requests[r] = session]

\* ------------------------------------------------------------ the calendar
\* Midnight.  A request lasts far less than a day: it sees at most one
\* midnight while it is in flight.
AdvanceDay ==
    /\ today < MaxDay
    /\ \A r \in RequestIds : ~requests[r].crossed
    /\ today' = today + 1
    /\ requests' = [r \in RequestIds |->
                      IF InFlight(r) THEN [requests[r] EXCEPT !.crossed = TRUE]
                      ELSE requests[r]]
    /\ UNCHANGED <<resolutions, progress_vars, roadmap_vars, session_vars,
                   last_response, pure_vars>>

\* An await of a request in flight raises (the database connection drops, the
\* client disconnects and the task is cancelled): the session is closed with
\* nothing more committed and the caller gets a server error.
request_fails(r) ==
    /\ InFlight(r)
    /\ Becomes(Respond(World, r, NoBody(500)))

\* ------------------------------------------------------- create_resolution
\* db.add(resolution); commit: the Resolution row is committed on its own
create_resolution_commit(w, r, u, rid) ==
    Suspend([w EXCEPT !.resolutions =
                [x \in DOMAIN w.resolutions \cup {rid} |->
                   IF x = rid THEN Resolution(u) ELSE w.resolutions[x]]],
            r, [Idle EXCEPT !.op = "create_resolution", !.pc = "created",
                            !.user = u, !.id = rid])

\* streak = Streak(resolution_id=resolution.id); db.add(streak); commit
create_resolution_streak(w, r) ==
    IF ~At(w, r, "create_resolution", "created") THEN w
    ELSE LET rid == w.requests[r].id
         IN  Respond([w EXCEPT !.streaks =
                        [x \in DOMAIN w.streaks \cup {rid} |->
                           IF x = rid THEN Streak ELSE w.streaks[x]]],
                     r, NoBody(201))

\* ------------------------------------------------------------ log_progress
\* select(Resolution).where(id == resolution_id, user_id == user["id"])
\* the select without the user_id condition
owned_resolution_any_user(w, rid, u) == rid \in DOMAIN w.resolutions

owned_resolution(w, rid, u) ==
    rid \in DOMAIN w.resolutions /\ w.resolutions[rid].user_id = u

\* the existing-entry check finds nothing
logs_on_none(w, rid, day) == {}

\* select(ProgressLog).where(resolution_id == ..., date == today)
logs_on(w, rid, day) ==
    {i \in 1..Len(w.progress_logs) :
        /\ w.progress_logs[i].resolution_id = rid
        /\ w.progress_logs[i].date = day}

\* the streak arithmetic without its last two lines: longest_streak is left
update_streak_longest_stale(streak, day) ==
    LET yesterday == day - 1
        current == IF streak.last_log_date = yesterday
                      \/ streak.last_log_date = NoDate
                   THEN streak.current_streak + 1
                   ELSE IF streak.last_log_date # day
                        THEN 1
                        ELSE streak.current_streak
    IN  [streak EXCEPT !.current_streak = current, !.last_log_date = day]

\* the streak arithmetic with the increment branch taken for the first log
\* only: a log on the day after the last one starts a new run
update_streak_never_increments(streak, day) ==
    LET current == IF streak.last_log_date = NoDate
                   THEN streak.current_streak + 1
                   ELSE IF streak.last_log_date # day
                        THEN 1
                        ELSE streak.current_streak
    IN  [streak EXCEPT !.current_streak = current,
                       !.last_log_date = day,
                       !.longest_streak = IF current > @ THEN current ELSE @]

\* the streak arithmetic with the reset branch incrementing
update_streak_never_resets(streak, day) ==
    LET current == IF streak.last_log_date # day
                   THEN streak.current_streak + 1
                   ELSE streak.current_streak
    IN  [streak EXCEPT !.current_streak = current,
                       !.last_log_date = day,
                       !.longest_streak = IF current > @ THEN current ELSE @]

\* the streak arithmetic of log_progress
update_streak(streak, day) ==
    LET yesterday == day - 1
        current == IF streak.last_log_date = yesterday
                      \/ streak.last_log_date = NoDate
                   THEN streak.current_streak + 1
                   ELSE IF streak.last_log_date # day
                        THEN 1
                        ELSE streak.current_streak
    IN  [streak EXCEPT !.current_streak = current,
                       !.last_log_date = day,
                       !.longest_streak = IF current > @ THEN current ELSE @]

\* the Resolution is loaded with its streak (selectinload)
log_progress_load(w, r, u, rid) ==
    IF ~owned_resolution(w, rid, u)
    THEN Respond(w, r, HTTPException(404, "Resolution not found"))
    ELSE Suspend(w, r, [Idle EXCEPT !.op = "log_progress", !.pc = "loaded",
                                    !.user = u, !.id = rid,
                                    !.has_streak = rid \in DOMAIN w.streaks,
                                    !.streak = IF rid \in DOMAIN w.streaks
                                               THEN w.streaks[rid]
                                               ELSE Streak])

\* today = date.today(); the existing-entry check (scalar_one_or_none raises
\* MultipleResultsFound on two rows)
log_progress_check(w, r) ==
    IF ~At(w, r, "log_progress", "loaded") THEN w
    ELSE LET n == Cardinality(logs_on(w, w.requests[r].id, w.today))
         IN  IF n = 0
             THEN Suspend(w, r, [w.requests[r] EXCEPT !.pc = "checked",
                                                      !.day = w.today])
             ELSE IF n = 1
             THEN Respond(w, r, HTTPException(
                                   400, "Already logged progress for today"))
             ELSE Respond(w, r, NoBody(500))

\* db.add(progress_log); the streak update; commit
log_progress_commit(w, r) ==
    IF ~At(w, r, "log_progress", "checked") THEN w
    ELSE LET s == w.requests[r]
         IN  Respond([w EXCEPT
                        !.progress_logs = Append(@, ProgressLog(s.id, s.day)),
                        !.streaks =
                           IF s.has_streak
                           THEN [@ EXCEPT ![s.id] =
                                   flush_row(@, s.streak,
                                             update_streak(s.streak, s.day))]
                           ELSE @],
                     r, NoBody(200))

\* ------------------------------------------ generate_progress_verification
\* _generate_fallback_quiz: three generic questions
FallbackQuiz ==
    [is_dict |-> TRUE, has_questions |-> TRUE,
     questions |-> <<[id |-> 1, question_type |-> "recall"],
                     [id |-> 2, question_type |-> "application"],
                     [id |-> 3, question_type |-> "teach_back"]>>,
     search_context |-> TRUE]

\* What the generation oracle may answer: an error (a timeout, text that is no
\* JSON), JSON that is no object, an object with questions (ids as the oracle
\* chose them), an object with no "questions" key.
QuizReplies ==
    { [kind |-> "error", is_dict |-> FALSE, has_questions |-> FALSE,
       questions |-> <<>>, search_context |-> FALSE],
      [kind |-> "json", is_dict |-> FALSE, has_questions |-> FALSE,
       questions |-> <<>>, search_context |-> FALSE],
      [kind |-> "json", is_dict |-> TRUE, has_questions |-> TRUE,
       questions |-> <<[id |-> 7, question_type |-> "concept"],
                       [id |-> 7, question_type |-> "teach_back"]>>,
       search_context |-> TRUE],
      [kind |-> "json", is_dict |-> TRUE, has_questions |-> FALSE,
       questions |-> <<>>, search_context |-> FALSE] }

\* generate_verification_quiz without its except branch's fallback: a failed
\* call gives an object with no questions
generate_verification_quiz_no_fallback(reply) ==
    [is_dict |-> TRUE,
     has_questions |-> reply.kind # "error" /\ reply.is_dict
                          /\ reply.has_questions,
     questions |-> [i \in 1..Len(reply.questions) |->
                      [reply.questions[i] EXCEPT !.id = i]],
     search_context |-> reply.search_context]

\* generate_verification_quiz: json.loads, the ids renumbered from 1; any
\* exception (the call's, json's, .get on a value that is no dict) gives the
\* fallback quiz
generate_verification_quiz(reply) ==
    IF reply.kind = "error" \/ ~reply.is_dict
    THEN FallbackQuiz
    ELSE [is_dict |-> TRUE, has_questions |-> reply.has_questions,
          questions |-> [i \in 1..Len(reply.questions) |->
                           [reply.questions[i] EXCEPT !.id = i]],
          search_context |-> reply.search_context]

\* select(ProgressLog).join(Resolution).where(id == log_id, user_id == ...)
owned_log(w, log_id, u) ==
    /\ log_id \in 1..Len(w.progress_logs)
    /\ owned_resolution(w, w.progress_logs[log_id].resolution_id, u)

\* the entry's quiz is never found
quizzes_of_none(w, log_id) == {}

\* progress_log.verification_quiz (selectinload)
quizzes_of(w, log_id) ==
    {q \in 1..Len(w.verification_quizzes) :
        w.verification_quizzes[q].progress_log_id = log_id}

\* the entry is loaded with its quiz; an existing quiz is returned as it is
generate_progress_verification_load(w, r, u, log_id) ==
    IF ~owned_log(w, log_id, u)
    THEN Respond(w, r, HTTPException(404, "Progress log not found"))
    ELSE IF quizzes_of(w, log_id) # {}
    THEN LET q == CHOOSE q \in quizzes_of(w, log_id) : TRUE
         IN  Respond(w, r, Response(200, FALSE, q))
    ELSE Suspend(w, r, [Idle EXCEPT !.op = "generate_progress_verification",
                                    !.pc = "generating", !.user = u,
                                    !.id = log_id, !.calls = 1])

\* the handler with a retry: a call that raised is issued again, twice at
\* most, before the fallback is taken
generate_progress_verification_commit_retries(w, r, reply) ==
    IF ~At(w, r, "generate_progress_verification", "generating") THEN w
    ELSE LET log_id == w.requests[r].id
             quiz_data == generate_verification_quiz(reply)
             questions == IF quiz_data.has_questions
                          THEN quiz_data.questions ELSE <<>>
             quiz_type == IF quiz_data.search_context
                          THEN "contextual" ELSE "teach_back"
         IN  IF reply.kind = "error" /\ w.requests[r].calls < 3
             THEN Suspend(w, r, [w.requests[r] EXCEPT !.calls = @ + 1])
             ELSE IF quizzes_of(w, log_id) # {}
             THEN Respond(w, r, Response(500, TRUE, 0))
             ELSE Respond([w EXCEPT !.verification_quizzes =
                             Append(@, VerificationQuiz(log_id, questions,
                                                        quiz_type))],
                          r, Response(200, TRUE,
                                      Len(w.verification_quizzes) + 1))

\* the oracle has answered; VerificationQuiz(...) is added and committed
\* (verification_quizzes.progress_log_id is unique: a second row for the
\* entry raises IntegrityError)
generate_progress_verification_commit(w, r, reply) ==
    IF ~At(w, r, "generate_progress_verification", "generating") THEN w
    ELSE LET log_id == w.requests[r].id
             quiz_data == generate_verification_quiz(reply)
             questions == IF quiz_data.has_questions
                          THEN quiz_data.questions ELSE <<>>
             quiz_type == IF quiz_data.search_context
                          THEN "contextual" ELSE "teach_back"
         IN  IF quizzes_of(w, log_id) # {}
             THEN Respond(w, r, Response(500, TRUE, 0))
             ELSE Respond([w EXCEPT !.verification_quizzes =
                             Append(@, VerificationQuiz(log_id, questions,
                                                        quiz_type))],
                          r, Response(200, TRUE,
                                      Len(w.verification_quizzes) + 1))

\* ------------------------------------------------ submit_verification_quiz
\* the result grade_verification_quiz returns when the oracle call raises
FallbackGrading ==
    [is_dict |-> TRUE, has_score |-> TRUE, overall_score |-> 50,
     has_passed |-> TRUE, passed |-> TRUE, concepts |-> {}]

\* What the grading oracle may answer: an error, JSON that is no object, a
\* pass, a fail, an object with a score and no "passed" key.
GradingReplies ==
    { [kind |-> "error", is_dict |-> FALSE, has_score |-> FALSE,
       overall_score |-> 0, has_passed |-> FALSE, passed |-> FALSE,
       concepts |-> {}],
      [kind |-> "json", is_dict |-> FALSE, has_score |-> FALSE,
       overall_score |-> 0, has_passed |-> FALSE, passed |-> FALSE,
       concepts |-> {}],
      [kind |-> "json", is_dict |-> TRUE, has_score |-> TRUE,
       overall_score |-> 80, has_passed |-> TRUE, passed |-> TRUE,
       concepts |-> {}],
      [kind |-> "json", is_dict |-> TRUE, has_score |-> TRUE,
       overall_score |-> 30, has_passed |-> TRUE, passed |-> FALSE,
       concepts |-> {"weak"}],
      [kind |-> "json", is_dict |-> TRUE, has_score |-> TRUE,
       overall_score |-> 80, has_passed |-> FALSE, passed |-> FALSE,
       concepts |-> {}] }

\* grade_verification_quiz with a failing result in its except branch
grade_verification_quiz_fails_closed(reply) ==
    IF reply.kind = "error"
    THEN [is_dict |-> TRUE, has_score |-> TRUE, overall_score |-> 0,
          has_passed |-> TRUE, passed |-> FALSE, concepts |-> {}]
    ELSE [is_dict |-> reply.is_dict, has_score |-> reply.has_score,
          overall_score |-> reply.overall_score,
          has_passed |-> reply.has_passed, passed |-> reply.passed,
          concepts |-> reply.concepts]

\* grade_verification_quiz: json.loads(response.text), or the fallback when
\* the call or the parse raises
grade_verification_quiz(reply) ==
    IF reply.kind = "error"
    THEN FallbackGrading
    ELSE [is_dict |-> reply.is_dict, has_score |-> reply.has_score,
          overall_score |-> reply.overall_score,
          has_passed |-> reply.has_passed, passed |-> reply.passed,
          concepts |-> reply.concepts]

\* select(VerificationQuiz).join(ProgressLog).join(Resolution)
\*     .where(id == quiz_id, user_id == user["id"])
owned_quiz(w, quiz_id, u) ==
    /\ quiz_id \in 1..Len(w.verification_quizzes)
    /\ owned_log(w, w.verification_quizzes[quiz_id].progress_log_id, u)

\* the quiz is loaded without the is_completed check
submit_verification_quiz_load_unchecked(w, r, u, quiz_id, answers) ==
    IF ~(/\ quiz_id \in 1..Len(w.verification_quizzes)
         /\ w.verification_quizzes[quiz_id].progress_log_id
               \in 1..Len(w.progress_logs))
    THEN Respond(w, r, HTTPException(404, "Quiz not found"))
    ELSE Suspend(w, r, [Idle EXCEPT !.op = "submit_verification_quiz",
                                    !.pc = "loaded", !.user = u,
                                    !.id = quiz_id, !.answers = answers,
                                    !.quiz = w.verification_quizzes[quiz_id]])

\* the quiz is loaded; a completed quiz is refused
submit_verification_quiz_load(w, r, u, quiz_id, answers) ==
    IF ~owned_quiz(w, quiz_id, u)
    THEN Respond(w, r, HTTPException(404, "Quiz not found"))
    ELSE IF w.verification_quizzes[quiz_id].is_completed
    THEN Respond(w, r, HTTPException(400, "Quiz already submitted"))
    ELSE Suspend(w, r, [Idle EXCEPT !.op = "submit_verification_quiz",
                                    !.pc = "loaded", !.user = u,
                                    !.id = quiz_id, !.answers = answers,
                                    !.quiz = w.verification_quizzes[quiz_id]])

\* select(ProgressLog).options(selectinload(resolution)); the grading call
\* is issued
submit_verification_quiz_load_log(w, r) ==
    IF ~At(w, r, "submit_verification_quiz", "loaded") THEN w
    ELSE Suspend(w, r, [w.requests[r] EXCEPT
                          !.pc = "grading",
                          !.calls = 1,
                          !.log = w.progress_logs[
                                     w.requests[r].quiz.progress_log_id]])

\* Another session has flushed its UPDATE of this quiz row and not committed:
\* the row is locked.
quiz_row_locked(w, r, quiz_id) ==
    \E o \in RequestIds \ {r} :
        /\ At(w, o, "submit_verification_quiz", "flushed")
        /\ w.requests[o].id = quiz_id

\* The oracle has answered.  The handler reads the result with .get (a result
\* that is no dict raises), assigns the quiz and the entry, and selects the
\* Streak, which flushes the session first; a passing result is assigned to
\* the streak with date.today().
submit_verification_quiz_grade(w, r, reply) ==
    IF ~At(w, r, "submit_verification_quiz", "grading") THEN w
    ELSE LET s == w.requests[r]
             grading_result == grade_verification_quiz(reply)
             rid == s.log.resolution_id
         IN  IF ~grading_result.is_dict
             THEN Respond(w, r, Response(500, TRUE, 0))
             ELSE Suspend(w, r, [s EXCEPT
                    !.pc = "flushed",
                    !.day = w.today,
                    !.grading =
                       [overall_score |-> IF grading_result.has_score
                                          THEN grading_result.overall_score
                                          ELSE 0,
                        passed |-> IF grading_result.has_passed
                                   THEN grading_result.passed ELSE FALSE,
                        concepts |-> grading_result.concepts],
                    !.has_streak = rid \in DOMAIN w.streaks,
                    !.streak = IF rid \in DOMAIN w.streaks
                               THEN w.streaks[rid] ELSE Streak])

\* select(Milestone).where(resolution_id == ..., status == "in_progress")
in_progress_milestones(w, rid) ==
    {m \in w.milestones : m.resolution_id = rid /\ m.status = "in_progress"}

\* what the handler assigned to the quiz, the entry and the streak
graded_quiz(s) ==
    [s.quiz EXCEPT !.responses = s.answers,
                   !.score = s.grading.overall_score,
                   !.passed = PyBool(s.grading.passed),
                   !.is_completed = TRUE]

graded_log(s) ==
    [s.log EXCEPT !.verified = s.grading.passed,
                  !.verification_score = s.grading.overall_score,
                  !.concepts_claimed = s.grading.concepts]

\* the streak assignment without the `quiz.passed` test
verified_streak_always(s) ==
    IF s.has_streak
    THEN [s.streak EXCEPT !.total_verified_days = @ + 1,
                          !.last_verified_date = s.day]
    ELSE s.streak

verified_streak(s) ==
    IF s.has_streak /\ s.grading.passed
    THEN [s.streak EXCEPT !.total_verified_days = @ + 1,
                          !.last_verified_date = s.day]
    ELSE s.streak

\* the commit of a handler that acts on the analysis: the in_progress
\* milestone of a failed verification goes back to pending
submit_verification_quiz_commit_revisits(w, r) ==
    IF ~At(w, r, "submit_verification_quiz", "flushed") THEN w
    ELSE LET s == w.requests[r]
             log_id == s.quiz.progress_log_id
             rid == s.log.resolution_id
             analysis == /\ s.has_streak
                         /\ ~s.grading.passed
                         /\ in_progress_milestones(w, rid) # {}
         IN  Respond([w EXCEPT
                        !.verification_quizzes[s.id] =
                           flush_row(@, s.quiz, graded_quiz(s)),
                        !.progress_logs[log_id] =
                           flush_row(@, s.log, graded_log(s)),
                        !.streaks =
                           IF s.has_streak /\ rid \in DOMAIN w.streaks
                           THEN [@ EXCEPT ![rid] =
                                   flush_row(@, s.streak, verified_streak(s))]
                           ELSE @,
                        !.milestones =
                           IF analysis
                           THEN {IF m \in in_progress_milestones(w, rid)
                                 THEN [m EXCEPT !.status = "pending"]
                                 ELSE m : m \in @}
                           ELSE @],
                     r, [Response(200, TRUE, s.id)
                           EXCEPT !.analysis = analysis])

\* A failing result on a goal with an in_progress milestone asks for the
\* recovery analysis (advisory: nothing of it is stored); then the commit.
submit_verification_quiz_commit(w, r) ==
    IF ~At(w, r, "submit_verification_quiz", "flushed") THEN w
    ELSE LET s == w.requests[r]
             log_id == s.quiz.progress_log_id
             rid == s.log.resolution_id
             analysis == /\ s.has_streak
                         /\ ~s.grading.passed
                         /\ in_progress_milestones(w, rid) # {}
         IN  Respond([w EXCEPT
                        !.verification_quizzes[s.id] =
                           flush_row(@, s.quiz, graded_quiz(s)),
                        !.progress_logs[log_id] =
                           flush_row(@, s.log, graded_log(s)),
                        !.streaks =
                           IF s.has_streak /\ rid \in DOMAIN w.streaks
                           THEN [@ EXCEPT ![rid] =
                                   flush_row(@, s.streak, verified_streak(s))]
                           ELSE @],
                     r, [Response(200, TRUE, s.id)
                           EXCEPT !.analysis = analysis])

\* ------------------------------------------------------------- the roadmap
\* Milestone(resolution_id=..., order=..., ...) with the column defaults
Milestone(id, rid, order) ==
    [id |-> id, resolution_id |-> rid, order |-> order, status |-> "pending",
     is_edited |-> FALSE, completed_at |-> NoDate]

\* resolution.milestones
milestones_of(rid) == {m \in milestones : m.resolution_id = rid}

\* _generate_fallback_roadmap: four milestones, orders 1..4
FallbackRoadmap == [is_dict |-> TRUE, orders |-> <<1, 2, 3, 4>>]

\* What the roadmap oracle may answer: an error, JSON that is no object, an
\* object whose milestones carry the orders 1, 2, an object whose milestones
\* carry the same order twice, an object with no milestones.
RoadmapReplies ==
    { [kind |-> "error", is_dict |-> FALSE, orders |-> <<>>],
      [kind |-> "json", is_dict |-> FALSE, orders |-> <<>>],
      [kind |-> "json", is_dict |-> TRUE, orders |-> <<1, 2>>],
      [kind |-> "json", is_dict |-> TRUE, orders |-> <<1, 1>>],
      [kind |-> "json", is_dict |-> TRUE, orders |-> <<>>] }

\* generate_roadmap / regenerate_roadmap_with_feedback: json.loads, or the
\* fallback roadmap when the call or the parse raises
generate_roadmap(reply) ==
    IF reply.kind = "error"
    THEN FallbackRoadmap
    ELSE [is_dict |-> reply.is_dict, orders |-> reply.orders]

\* the rows db.add() inserts for a list of orders, ids from the sequence
new_milestones(rid, orders) ==
    {Milestone(next_milestone_id + i - 1, rid, orders[i]) : i \in 1..Len(orders)}

\* the goal's milestones are deleted and the new ones added, in one commit
replace_roadmap(rid, orders) ==
    /\ next_milestone_id + Len(orders) - 1 <= MaxMilestoneId
    /\ milestones' = (milestones \ milestones_of(rid))
                        \cup new_milestones(rid, orders)
    /\ next_milestone_id' = next_milestone_id + Len(orders)

\* a handler that runs without another request in between ends
Answer(response) ==
    /\ last_response' = response
    /\ UNCHANGED <<today, progress_vars, session_vars, requests, pure_vars>>

generate_resolution_roadmap(u, rid, reply) ==
    LET roadmap_data == generate_roadmap(reply)
    IN  IF ~owned_resolution(World, rid, u)
        THEN /\ Answer(HTTPException(404, "Resolution not found"))
             /\ UNCHANGED <<resolutions, roadmap_vars>>
        ELSE IF ~roadmap_data.is_dict
        THEN /\ Answer(NoBody(500))
             /\ UNCHANGED <<resolutions, roadmap_vars>>
        ELSE /\ replace_roadmap(rid, roadmap_data.orders)
             /\ resolutions' = [resolutions EXCEPT
                                  ![rid].roadmap_generated = TRUE,
                                  ![rid].roadmap_needs_refresh = FALSE]
             /\ Answer(NoBody(200))
             /\ UNCHANGED <<ai_feedback, artifact_vars>>

\* the milestones of the body, order = position (enumerate from 1)
save_manual_roadmap(u, rid, n) ==
    IF ~owned_resolution(World, rid, u)
    THEN /\ Answer(HTTPException(404, "Resolution not found"))
         /\ UNCHANGED <<resolutions, roadmap_vars>>
    ELSE /\ replace_roadmap(rid, [i \in 1..n |-> i])
         /\ resolutions' = [resolutions EXCEPT ![rid].roadmap_generated = TRUE]
         /\ Answer(NoBody(200))
         /\ UNCHANGED <<ai_feedback, artifact_vars>>

\* select(Milestone).join(Resolution).where(id == ..., user_id == user.id)
owned_milestones(mid, u) ==
    {m \in milestones :
        m.id = mid /\ owned_resolution(World, m.resolution_id, u)}

\* the edit without the refresh flag of the goal
update_milestone_no_refresh(u, mid) ==
    IF owned_milestones(mid, u) = {}
    THEN /\ Answer(HTTPException(404, "Milestone not found"))
         /\ UNCHANGED <<resolutions, roadmap_vars>>
    ELSE LET milestone == CHOOSE m \in owned_milestones(mid, u) : TRUE
         IN  /\ milestones' = (milestones \ {milestone})
                                 \cup {[milestone EXCEPT !.is_edited = TRUE]}
             /\ Answer(NoBody(200))
             /\ UNCHANGED <<resolutions, next_milestone_id, ai_feedback,
                           artifact_vars>>

\* the body's title, description, criteria and target date are not modelled:
\* no other code reads them
update_milestone(u, mid) ==
    IF owned_milestones(mid, u) = {}
    THEN /\ Answer(HTTPException(404, "Milestone not found"))
         /\ UNCHANGED <<resolutions, roadmap_vars>>
    ELSE LET milestone == CHOOSE m \in owned_milestones(mid, u) : TRUE
         IN  /\ milestones' = (milestones \ {milestone})
                                 \cup {[milestone EXCEPT !.is_edited = TRUE]}
             /\ resolutions' = [resolutions EXCEPT
                  ![milestone.resolution_id].roadmap_needs_refresh = TRUE]
             /\ Answer(NoBody(200))
             /\ UNCHANGED <<next_milestone_id, ai_feedback, artifact_vars>>

\* any pending milestone is taken, whatever its order
next_milestones_any(ms) == {m \in ms : m.status = "pending"}

\* min((m for m in resolution.milestones if m.status == "pending"),
\*     key=lambda m: m.order, default=None): a pending milestone of the lowest
\* order (among equal orders, the first the relationship lists)
next_milestones(ms) ==
    {m \in ms : /\ m.status = "pending"
                /\ \A o \in ms : o.status = "pending" => m.order <= o.order}

\* the milestone becomes completed, whatever its status was; the lowest
\* pending milestone of the goal becomes in_progress, or the goal completed
complete_milestone(u, mid) ==
    IF owned_milestones(mid, u) = {}
    THEN /\ Answer(HTTPException(404, "Milestone not found"))
         /\ UNCHANGED <<resolutions, roadmap_vars>>
    ELSE LET milestone == CHOOSE m \in owned_milestones(mid, u) : TRUE
             rid == milestone.resolution_id
             completed == [milestone EXCEPT !.status = "completed",
                                            !.completed_at = today]
             loaded == (milestones_of(rid) \ {milestone}) \cup {completed}
         IN  /\ IF next_milestones(loaded) # {}
                THEN \E next_milestone \in next_milestones(loaded) :
                       /\ milestones' =
                            (milestones \ {milestone, next_milestone})
                               \cup {completed,
                                     [next_milestone EXCEPT
                                        !.status = "in_progress"]}
                       /\ resolutions' = [resolutions EXCEPT
                            ![rid].current_milestone = next_milestone.order]
                ELSE /\ milestones' = (milestones \ {milestone})
                                         \cup {completed}
                     /\ resolutions' = [resolutions EXCEPT
                                          ![rid].status = "completed"]
             /\ Answer(NoBody(200))
             /\ UNCHANGED <<next_milestone_id, ai_feedback, artifact_vars>>

\* ------------------------------------------------- weekly goal, north star
\* WeeklyGoal(resolution_id=..., goal_text=...), NorthStarGoal(resolution_id=
\* ..., goal_statement=...).  A text is known by where it comes from: "flash"
\* (the generation oracle), "pro" (the regeneration oracle), "fallback" (the
\* fallback dict of the agent), "default" (the default of the handler's .get).
WeeklyGoal(rid, goal_text) == [resolution_id |-> rid, goal_text |-> goal_text]
NorthStarGoal(rid, goal_statement) ==
    [resolution_id |-> rid, goal_statement |-> goal_statement]

\* What an artifact oracle may answer: an error, JSON that is no object, an
\* object with the text key, an object without it.
ArtifactReplies ==
    { [kind |-> "error", is_dict |-> FALSE, has_text |-> FALSE],
      [kind |-> "json", is_dict |-> FALSE, has_text |-> FALSE],
      [kind |-> "json", is_dict |-> TRUE, has_text |-> TRUE],
      [kind |-> "json", is_dict |-> TRUE, has_text |-> FALSE] }

\* generate_weekly_goal, generate_north_star and their regenerate_..._with_
\* feedback: json.loads, or the fallback dict when the call or the parse
\* raises; tier is the oracle asked
generate_artifact(reply, tier) ==
    IF reply.kind = "error"
    THEN [is_dict |-> TRUE, has_text |-> TRUE, text |-> "fallback"]
    ELSE [is_dict |-> reply.is_dict, has_text |-> reply.has_text,
          text |-> tier]

generate_resolution_weekly_goal(u, rid, reply) ==
    LET goal_data == generate_artifact(reply, "flash")
    IN  IF ~owned_resolution(World, rid, u)
        THEN /\ Answer(HTTPException(404, "Resolution not found"))
             /\ UNCHANGED <<resolutions, roadmap_vars>>
        ELSE IF ~goal_data.is_dict
        THEN /\ Answer(NoBody(500))
             /\ UNCHANGED <<resolutions, roadmap_vars>>
        ELSE /\ Len(weekly_goals) + 1 \in WeeklyGoalIds
             /\ weekly_goals' =
                   Append(weekly_goals,
                          WeeklyGoal(rid, IF goal_data.has_text
                                          THEN goal_data.text ELSE "default"))
             /\ Answer(NoBody(200))
             /\ UNCHANGED <<resolutions, milestones, next_milestone_id,
                            ai_feedback, north_star_goals>>

\* north_star_goals.resolution_id is unique: the INSERT of a second one for
\* the goal raises
generate_resolution_north_star(u, rid, reply) ==
    LET north_star_data == generate_artifact(reply, "flash")
    IN  IF ~owned_resolution(World, rid, u)
        THEN /\ Answer(HTTPException(404, "Resolution not found"))
             /\ UNCHANGED <<resolutions, roadmap_vars>>
        ELSE IF \/ ~north_star_data.is_dict
                \/ \E i \in 1..Len(north_star_goals) :
                      north_star_goals[i].resolution_id = rid
        THEN /\ Answer(NoBody(500))
             /\ UNCHANGED <<resolutions, roadmap_vars>>
        ELSE /\ north_star_goals' =
                   Append(north_star_goals,
                          NorthStarGoal(rid, IF north_star_data.has_text
                                             THEN north_star_data.text
                                             ELSE "default"))
             /\ Answer(NoBody(200))
             /\ UNCHANGED <<resolutions, milestones, next_milestone_id,
                            ai_feedback, weekly_goals>>

\* ------------------------------------------------------------- ai feedback
\* AIFeedback(user_id, content_type, content_id, rating) with the defaults
AIFeedback(u, content_type, content_id, rating) ==
    [user_id |-> u, content_type |-> content_type, content_id |-> content_id,
     rating |-> rating, was_regenerated |-> FALSE]

\* rating is any string of the body
KnownRatings == {"thumbs_up", "thumbs_down"}
Ratings == KnownRatings \cup {"meh"}
\* content_type of the body: the three kinds the regeneration knows
ContentTypes == {"roadmap", "weekly_goal", "north_star"}

submit_ai_feedback(u, content_type, content_id, rating) ==
    /\ Len(ai_feedback) < MaxFeedback
    /\ ai_feedback' = Append(ai_feedback,
                             AIFeedback(u, content_type, content_id, rating))
    /\ Answer(NoBody(200))
    /\ UNCHANGED <<resolutions, milestones, next_milestone_id, artifact_vars>>

\* select(WeeklyGoal / NorthStarGoal).join(Resolution)
\*     .where(id == feedback.content_id, user_id == user.id)
owned_artifact(rows, id, u) ==
    /\ id \in 1..Len(rows)
    /\ owned_resolution(World, rows[id].resolution_id, u)

\* What the regeneration oracle answers, read as a roadmap and read as a
\* weekly goal or north star: one request asks one of the two, the other
\* reading is the error.
RegenerationReplies ==
    {[roadmap |-> reply, artifact |-> [kind |-> "error", is_dict |-> FALSE,
                                       has_text |-> FALSE]] :
        reply \in RoadmapReplies}
    \cup {[roadmap |-> [kind |-> "error", is_dict |-> FALSE, orders |-> <<>>],
           artifact |-> reply] : reply \in ArtifactReplies}

\* the handler with the flag set by the rejection of a rating too
regenerate_from_feedback_flags_rejected(u, fid, reply) ==
    IF ~(fid \in 1..Len(ai_feedback) /\ ai_feedback[fid].user_id = u)
    THEN /\ Answer(HTTPException(404, "Feedback not found"))
         /\ UNCHANGED <<resolutions, roadmap_vars>>
    ELSE /\ Answer(HTTPException(
                    400, "Can only regenerate from negative feedback"))
         /\ ai_feedback' = [ai_feedback EXCEPT ![fid].was_regenerated = TRUE]
         /\ UNCHANGED <<resolutions, milestones, next_milestone_id,
                        artifact_vars>>

\* a rating and a regeneration made before both refuse the regeneration
not_negative_or_regenerated(feedback) ==
    feedback.rating # "thumbs_down" \/ feedback.was_regenerated

\* feedback.rating != "thumbs_down": nothing else of the row is tested
not_negative(feedback) == feedback.rating # "thumbs_down"

\* The rating is checked first; then the branch of the content type: the
\* weekly goal or the north star gets the text of the reply (its own when the
\* key is missing), the goal of the milestone gets a new roadmap, order =
\* position; was_regenerated is set in the same commit.
regenerate_from_feedback(u, fid, reply) ==
    IF ~(fid \in 1..Len(ai_feedback) /\ ai_feedback[fid].user_id = u)
    THEN /\ Answer(HTTPException(404, "Feedback not found"))
         /\ UNCHANGED <<resolutions, roadmap_vars>>
    ELSE IF not_negative(ai_feedback[fid])
    THEN /\ Answer(HTTPException(
                    400, "Can only regenerate from negative feedback"))
         /\ UNCHANGED <<resolutions, roadmap_vars>>
    ELSE IF ai_feedback[fid].content_type = "weekly_goal"
    THEN LET id == ai_feedback[fid].content_id
             new_data == generate_artifact(reply.artifact, "pro")
         IN  IF ~owned_artifact(weekly_goals, id, u)
             THEN /\ Answer(HTTPException(404, "Weekly goal not found"))
                  /\ UNCHANGED <<resolutions, roadmap_vars>>
             ELSE IF ~new_data.is_dict
             THEN /\ Answer([NoBody(500) EXCEPT !.oracle = TRUE])
                  /\ UNCHANGED <<resolutions, roadmap_vars>>
             ELSE /\ weekly_goals' = [weekly_goals EXCEPT ![id].goal_text =
                        IF new_data.has_text THEN new_data.text ELSE @]
                  /\ ai_feedback' = [ai_feedback EXCEPT
                                       ![fid].was_regenerated = TRUE]
                  /\ Answer(Response(200, TRUE, 0))
                  /\ UNCHANGED <<resolutions, milestones, next_milestone_id,
                                 north_star_goals>>
    ELSE IF ai_feedback[fid].content_type = "north_star"
    THEN LET id == ai_feedback[fid].content_id
             new_data == generate_artifact(reply.artifact, "pro")
         IN  IF ~owned_artifact(north_star_goals, id, u)
             THEN /\ Answer(HTTPException(404, "North Star not found"))
                  /\ UNCHANGED <<resolutions, roadmap_vars>>
             ELSE IF ~new_data.is_dict
             THEN /\ Answer([NoBody(500) EXCEPT !.oracle = TRUE])
                  /\ UNCHANGED <<resolutions, roadmap_vars>>
             ELSE /\ north_star_goals' =
                        [north_star_goals EXCEPT ![id].goal_statement =
                           IF new_data.has_text THEN new_data.text ELSE @]
                  /\ ai_feedback' = [ai_feedback EXCEPT
                                       ![fid].was_regenerated = TRUE]
                  /\ Answer(Response(200, TRUE, 0))
                  /\ UNCHANGED <<resolutions, milestones, next_milestone_id,
                                 weekly_goals>>
    ELSE IF ai_feedback[fid].content_type # "roadmap"
    THEN /\ Answer(HTTPException(
                    400, "Regeneration not supported for content type"))
         /\ UNCHANGED <<resolutions, roadmap_vars>>
    ELSE IF owned_milestones(ai_feedback[fid].content_id, u) = {}
    THEN /\ Answer(HTTPException(404, "Milestone not found"))
         /\ UNCHANGED <<resolutions, roadmap_vars>>
    ELSE LET milestone ==
                CHOOSE m \in owned_milestones(ai_feedback[fid].content_id, u) :
                    TRUE
             new_roadmap_data == generate_roadmap(reply.roadmap)
         IN  IF ~new_roadmap_data.is_dict
             THEN /\ Answer([NoBody(500) EXCEPT !.oracle = TRUE])
                  /\ UNCHANGED <<resolutions, roadmap_vars>>
             ELSE /\ replace_roadmap(milestone.resolution_id,
                       [i \in 1..Len(new_roadmap_data.orders) |-> i])
                  /\ ai_feedback' = [ai_feedback EXCEPT
                                       ![fid].was_regenerated = TRUE]
                  /\ Answer(Response(200, TRUE, 0))
                  /\ UNCHANGED <<resolutions, artifact_vars>>

\* ------------------------------------------------------------ the requests
\* One request at a time: a handler runs from its first line to its response
\* with no other request in between (slot 1).
create_resolution(u, fails) ==
    \E rid \in ResolutionIds \ DOMAIN resolutions :
        LET committed == create_resolution_commit(World, 1, u, rid)
        IN  Becomes(IF fails
                    THEN Respond(committed, 1, NoBody(500))
                    ELSE create_resolution_streak(committed, 1))

log_progress(u, rid) ==
    /\ Len(progress_logs) < MaxLogs
    /\ Becomes(log_progress_commit(
                 log_progress_check(
                   log_progress_load(World, 1, u, rid), 1), 1))

generate_progress_verification(u, log_id, reply) ==
    LET loaded == generate_progress_verification_load(World, 1, u, log_id)
    IN  /\ loaded.requests[1].pc # "idle"
              => Len(verification_quizzes) < MaxQuizzes
        /\ Becomes(generate_progress_verification_commit(loaded, 1, reply))

submit_verification_quiz(u, quiz_id, answers, reply) ==
    Becomes(submit_verification_quiz_commit(
              submit_verification_quiz_grade(
                submit_verification_quiz_load_log(
                  submit_verification_quiz_load(World, 1, u, quiz_id, answers),
                  1), 1, reply), 1))

\* Requests that overlap: a step of the request in slot r, from one await to
\* the next.
CreateResolutionCommit(r, u) ==
    /\ ~InFlight(r)
    /\ \E rid \in ResolutionIds \ DOMAIN resolutions :
          Becomes(create_resolution_commit(World, r, u, rid))

CreateResolutionStreak(r) ==
    /\ At(World, r, "create_resolution", "created")
    /\ Becomes(create_resolution_streak(World, r))

LogRequests == {r \in RequestIds : requests[r].op = "log_progress"}

LogProgressLoad(r, u, rid) ==
    /\ ~InFlight(r)
    /\ Len(progress_logs) + Cardinality(LogRequests) < MaxLogs
    /\ Becomes(log_progress_load(World, r, u, rid))

LogProgressCheck(r) ==
    /\ At(World, r, "log_progress", "loaded")
    /\ Becomes(log_progress_check(World, r))

LogProgressCommit(r) ==
    /\ At(World, r, "log_progress", "checked")
    /\ Becomes(log_progress_commit(World, r))

GenerateRequests ==
    {r \in RequestIds : requests[r].op = "generate_progress_verification"}

GenerateLoad(r, u, log_id) ==
    /\ ~InFlight(r)
    /\ LET loaded == generate_progress_verification_load(World, r, u, log_id)
       IN  /\ loaded.requests[r].pc # "idle"
                 => Len(verification_quizzes) + Cardinality(GenerateRequests)
                       < MaxQuizzes
           /\ Becomes(loaded)

GenerateCommit(r, reply) ==
    /\ At(World, r, "generate_progress_verification", "generating")
    /\ Becomes(generate_progress_verification_commit(World, r, reply))

SubmitLoad(r, u, quiz_id, answers) ==
    /\ ~InFlight(r)
    /\ Becomes(submit_verification_quiz_load(World, r, u, quiz_id, answers))

SubmitLoadLog(r) ==
    /\ At(World, r, "submit_verification_quiz", "loaded")
    /\ Becomes(submit_verification_quiz_load_log(World, r))

SubmitGrade(r, reply) ==
    /\ At(World, r, "submit_verification_quiz", "grading")
    /\ ~quiz_row_locked(World, r, requests[r].id)
    /\ Becomes(submit_verification_quiz_grade(World, r, reply))

SubmitCommit(r) ==
    /\ At(World, r, "submit_verification_quiz", "flushed")
    /\ Becomes(submit_verification_quiz_commit(World, r))

\* ------------------------------------------------- the goal likelihood score
\* Python floats are modelled by exact fractions [num, den] with den > 0; a
\* score is an integer percent (0.8 = 80), a result an integer number of
\* hundredths (0.67 = 67).
RECURSIVE gcd(_, _)
gcd(a, b) == IF b = 0 THEN a ELSE gcd(b, a % b)
\* num / den in lowest terms
Fraction(num, den) ==
    [num |-> num \div gcd(num, den), den |-> den \div gcd(num, den)]
Plus(f, g) == Fraction(f.num * g.den + g.num * f.den, f.den * g.den)
Times(f, g) == Fraction(f.num * g.num, f.den * g.den)
\* min(f, 1.0)
AtMostOne(f) == IF f.num > f.den THEN Fraction(1, 1) ELSE f
Max(a, b) == IF a >= b THEN a ELSE b

RECURSIVE sum(_)
sum(scores) ==
    IF scores = <<>> THEN 0 ELSE Head(scores) + sum(Tail(scores))

\* round(score, 2): the nearest hundredth; the binary float of a score that
\* is exactly halfway between two hundredths lies on either side of it
round2(score) ==
    LET q == (100 * score.num) \div score.den
        rem == (100 * score.num) % score.den
    IN  IF 2 * rem < score.den THEN {q}
        ELSE IF 2 * rem > score.den THEN {q + 1}
        ELSE {q, q + 1}

expected_logs == 7

\* verification_scores: [given |-> FALSE] is None, [given |-> TRUE, list |-> s]
\* a list of scores
NoScores == [given |-> FALSE, list |-> <<>>]
Scores(list) == [given |-> TRUE, list |-> list]

\* the streak ratio is not capped at 1.0
calculate_goal_likelihood_score_uncapped(streak_data, ms, logs, scores) ==
    LET streak_ratio ==
            Fraction(streak_data.current_streak,
                     Max(streak_data.longest_streak, 7))
        completed ==
            Cardinality({i \in 1..Len(ms) :
                            ms[i].status = "completed"})
        total == IF Len(ms) = 0 THEN 1 ELSE Len(ms)
        recent_logs == Cardinality({i \in 1..Len(logs) : logs[i]})
        frequency_ratio == AtMostOne(Fraction(recent_logs, expected_logs))
        avg_score ==
            IF scores.given /\ Len(scores.list) > 0
            THEN Fraction(sum(scores.list),
                          100 * Len(scores.list))
            ELSE Fraction(1, 2)
    IN  round2(Plus(Plus(Times(Fraction(3, 10), streak_ratio),
                         Times(Fraction(3, 10), Fraction(completed, total))),
                    Plus(Times(Fraction(2, 10), frequency_ratio),
                         Times(Fraction(2, 10), avg_score))))

\* no verification data counts as a score of 0
calculate_goal_likelihood_score_no_neutral(streak_data, ms, logs, scores) ==
    LET streak_ratio ==
            AtMostOne(Fraction(streak_data.current_streak,
                               Max(streak_data.longest_streak, 7)))
        completed ==
            Cardinality({i \in 1..Len(ms) :
                            ms[i].status = "completed"})
        total == IF Len(ms) = 0 THEN 1 ELSE Len(ms)
        recent_logs == Cardinality({i \in 1..Len(logs) : logs[i]})
        frequency_ratio == AtMostOne(Fraction(recent_logs, expected_logs))
        avg_score ==
            IF scores.given /\ Len(scores.list) > 0
            THEN Fraction(sum(scores.list),
                          100 * Len(scores.list))
            ELSE Fraction(0, 1)
    IN  round2(Plus(Plus(Times(Fraction(3, 10), streak_ratio),
                         Times(Fraction(3, 10), Fraction(completed, total))),
                    Plus(Times(Fraction(2, 10), frequency_ratio),
                         Times(Fraction(2, 10), avg_score))))

\* The set of the values the call can return. logs[i] is whether the i-th
\* progress log is a non-empty dict.
calculate_goal_likelihood_score(streak_data, ms, logs, scores) ==
    LET streak_ratio ==
            AtMostOne(Fraction(streak_data.current_streak,
                               Max(streak_data.longest_streak, 7)))
        completed ==
            Cardinality({i \in 1..Len(ms) :
                            ms[i].status = "completed"})
        total == IF Len(ms) = 0 THEN 1 ELSE Len(ms)
        milestone_ratio == Fraction(completed, total)
        recent_logs == Cardinality({i \in 1..Len(logs) : logs[i]})
        frequency_ratio == AtMostOne(Fraction(recent_logs, expected_logs))
        avg_score ==
            IF scores.given /\ Len(scores.list) > 0
            THEN Fraction(sum(scores.list),
                          100 * Len(scores.list))
            ELSE Fraction(1, 2)
    IN  round2(Plus(Plus(Times(Fraction(3, 10), streak_ratio),
                         Times(Fraction(3, 10), milestone_ratio)),
                    Plus(Times(Fraction(2, 10), frequency_ratio),
                         Times(Fraction(2, 10), avg_score))))

\* a call of calculate_goal_likelihood_score returns
CalculateGoalLikelihoodScore ==
    /\ call.fn = "calculate_goal_likelihood_score"
    /\ returned = NoScore
    /\ returned' \in calculate_goal_likelihood_score(
                        call.streak_data, call.milestones, call.progress_logs,
                        call.verification_scores)
    /\ UNCHANGED <<today, resolutions, progress_vars, roadmap_vars,
                   session_vars, requests, last_response, call>>

\* ------------------------------------------------------- the refresh date
\* A datetime is a number of days; timedelta(weeks=n) is 7 * n.
\* refresh_intervals.get(cadence, timedelta(weeks=2)) with weekly as 2 weeks
refresh_intervals_weekly_short(cadence) ==
    CASE cadence = "daily" -> 7
      [] cadence = "3x_week" -> 14
      [] cadence = "weekdays" -> 14
      [] OTHER -> 14

\* refresh_intervals.get(cadence, timedelta(weeks=2))
refresh_intervals(cadence) ==
    CASE cadence = "daily" -> 7
      [] cadence = "3x_week" -> 14
      [] cadence = "weekdays" -> 14
      [] cadence = "weekly" -> 28
      [] OTHER -> 14

\* the refresh date without the test that it is in the future
calculate_next_refresh_date_unguarded(cadence, last_refresh, now) ==
    LET base_date == IF last_refresh # NoDate THEN last_refresh ELSE now
    IN  base_date + refresh_intervals(cadence)

\* now is datetime.utcnow() as the function reads it; last_refresh may be
\* None (NoDate)
calculate_next_refresh_date(cadence, last_refresh, now) ==
    LET base_date == IF last_refresh # NoDate THEN last_refresh ELSE now
        interval == refresh_intervals(cadence)
        next_refresh == base_date + interval
    IN  IF next_refresh <= now THEN now + interval ELSE next_refresh

\* a call of calculate_next_refresh_date returns
CalculateNextRefreshDate ==
    /\ call.fn = "calculate_next_refresh_date"
    /\ returned = NoScore
    /\ returned' = calculate_next_refresh_date(call.cadence, call.last_refresh,
                                               call.now)
    /\ UNCHANGED <<today, resolutions, progress_vars, roadmap_vars,
                   session_vars, requests, last_response, call>>

\* ------------------------------------------------- refresh_living_roadmap
\* the rows of a relationship as a list
RECURSIVE as_list(_)
as_list(rows) ==
    IF rows = {} THEN <<>>
    ELSE LET row == CHOOSE x \in rows : TRUE
         IN  <<row>> \o as_list(rows \ {row})

\* What the roadmap-update oracle may answer: an error, a JSON object, JSON
\* that is no object.
LivingRoadmapReplies ==
    { [kind |-> "error", is_dict |-> FALSE],
      [kind |-> "json", is_dict |-> TRUE],
      [kind |-> "json", is_dict |-> FALSE] }

\* generate_living_roadmap_update: json.loads, or the "On track" dict when the
\* call or the parse raises
generate_living_roadmap_update(reply) ==
    IF reply.kind = "error" THEN [is_dict |-> TRUE]
    ELSE [is_dict |-> reply.is_dict]

\* streak_data of the handler: the counters of the Streak row, or 0 and 0
streak_data_of(rid) ==
    IF rid \in DOMAIN streaks
    THEN [current_streak |-> streaks[rid].current_streak,
          longest_streak |-> streaks[rid].longest_streak]
    ELSE [current_streak |-> 0, longest_streak |-> 0]

\* milestones_data of the handler: one dict per milestone of the goal
milestones_data_of(rid) ==
    as_list({[id |-> m.id, status |-> m.status] : m \in milestones_of(rid)})

\* progress_data of the handler: one non-empty dict {"content", "date"} per
\* entry of the goal, the first 20
progress_data_of(rid) ==
    LET n == Cardinality({i \in 1..Len(progress_logs) :
                            progress_logs[i].resolution_id = rid})
    IN  [i \in 1..(IF n > 20 THEN 20 ELSE n) |-> TRUE]

\* The likelihood score is computed without verification_scores, the refresh
\* date without last_refresh; both are committed with roadmap_needs_refresh
\* = False; then the response reads update_data.get(...).
refresh_living_roadmap(u, rid, reply) ==
    IF ~owned_resolution(World, rid, u)
    THEN /\ Answer(HTTPException(404, "Resolution not found"))
         /\ UNCHANGED <<resolutions, roadmap_vars>>
    ELSE IF milestones_of(rid) = {}
    THEN /\ Answer(HTTPException(400, "No roadmap to refresh"))
         /\ UNCHANGED <<resolutions, roadmap_vars>>
    ELSE /\ \E likelihood_score \in calculate_goal_likelihood_score(
                   streak_data_of(rid), milestones_data_of(rid),
                   progress_data_of(rid), NoScores) :
               resolutions' = [resolutions EXCEPT
                  ![rid].goal_likelihood_score = likelihood_score,
                  ![rid].next_roadmap_refresh =
                     calculate_next_refresh_date(resolutions[rid].cadence,
                                                 NoDate, today),
                  ![rid].roadmap_needs_refresh = FALSE]
         /\ Answer(IF generate_living_roadmap_update(reply).is_dict
                   THEN NoBody(200) ELSE NoBody(500))
         /\ UNCHANGED roadmap_vars

\* ---------------------------------------------------- the learning sessions
\* app/api/sessions.py, one request at a time.  A handler works on its
\* SQLAlchemy session: the tables as the session sees them and, in new, the
\* DailySession rows handed to db.add that no commit has written yet.
Concepts == {"loops", "types"}
\* the rows of daily_sessions a run may reach
MaxSessionRows == MaxSessionDays + 2
SessionIds == 1..(MaxSessionDays + 1)

Database ==
    [daily_sessions |-> daily_sessions, quizzes |-> quizzes,
     current_day |-> current_day, learning_metrics |-> learning_metrics,
     new |-> <<>>]

\* db.add(row)
db_add(db, row) == [db EXCEPT !.new = Append(@, row)]

\* await db.commit(): the INSERT of the rows added
db_commit(db) == [db EXCEPT !.daily_sessions = @ \o db.new, !.new = <<>>]

\* a session that is committed when the request ends
db_close_commits(db) == db_commit(db)

\* get_db: `finally: await session.close()`.  The session is closed without a
\* commit: the rows added since the last commit are dropped.
db_close(db) == [db EXCEPT !.new = <<>>]

\* the handler returns (or raises) and get_db closes its session
Returns(db, response) ==
    /\ daily_sessions' = db_close(db).daily_sessions
    /\ quizzes' = db_close(db).quizzes
    /\ current_day' = db_close(db).current_day
    /\ learning_metrics' = db_close(db).learning_metrics
    /\ last_response' = response
    /\ UNCHANGED <<today, resolutions, progress_vars, roadmap_vars, requests,
                   pure_vars>>

\* DailySession(resolution_id=..., day_number=..., is_reinforcement=...)
DailySession(rid, day_number, is_reinforcement) ==
    [resolution_id |-> rid, day_number |-> day_number,
     is_reinforcement |-> is_reinforcement]

\* Quiz(session_id=...) and its QuizQuestion rows: the concept of each
Quiz(questions) ==
    [questions |-> questions, is_completed |-> FALSE, score |-> NoScore,
     passed |-> "None"]

\* LearningMetric(...) of a concept tested for the first time
LearningMetric(rid, concept, is_correct) ==
    [resolution_id |-> rid, concept |-> concept,
     mastery_score |-> IF is_correct THEN Fraction(1, 1) ELSE Fraction(0, 1),
     attempts |-> 1, correct_count |-> IF is_correct THEN 1 ELSE 0,
     needs_reinforcement |-> ~is_correct]

\* f < g
LessThan(f, g) == f.num * g.den < g.num * f.den

\* the metric of a concept tested again, needs_reinforcement as at its
\* creation
tested_flag_of_answer(metric, is_correct) ==
    LET attempts == metric.attempts + 1
        correct_count == metric.correct_count + IF is_correct THEN 1 ELSE 0
    IN  [metric EXCEPT !.attempts = attempts,
                       !.correct_count = correct_count,
                       !.mastery_score = Fraction(correct_count, attempts),
                       !.needs_reinforcement = ~is_correct]

\* the metric of a concept tested again.  correct_count / attempts is the
\* float nearest to the quotient, and 0.7 the float nearest to 7/10: the
\* comparison is the comparison of the quotient with 7/10.
tested(metric, is_correct) ==
    LET attempts == metric.attempts + 1
        correct_count == metric.correct_count + IF is_correct THEN 1 ELSE 0
        mastery_score == Fraction(correct_count, attempts)
    IN  [metric EXCEPT !.attempts = attempts,
                       !.correct_count = correct_count,
                       !.mastery_score = mastery_score,
                       !.needs_reinforcement =
                           LessThan(mastery_score, Fraction(7, 10))]

\* select(LearningMetric).where(resolution_id == ..., concept == ...)
metrics_of(db, rid, concepts) ==
    {m \in db.learning_metrics :
        m.resolution_id = rid /\ m.concept \in concepts}

\* a concept of both lists counts as correct (is_correct = concept in
\* strong_concepts)
_update_learning_metrics(db, rid, weak_concepts, strong_concepts) ==
    LET all_concepts == weak_concepts \cup strong_concepts
        found == metrics_of(db, rid, all_concepts)
    IN  [db EXCEPT !.learning_metrics =
           (@ \ found)
           \cup {tested(m, m.concept \in strong_concepts) : m \in found}
           \cup {LearningMetric(rid, c, c \in strong_concepts) :
                   c \in all_concepts \ {m.concept : m \in found}}]

\* db.add(reinforcement_session), and nothing else
_create_reinforcement_session(db, rid, after_day) ==
    db_add(db, DailySession(rid, after_day, TRUE))

\* select(DailySession).join(Resolution)
\*     .where(DailySession.id == session_id, user_id == current_user.id)
owned_session(sid, u) ==
    /\ sid \in 1..Len(daily_sessions)
    /\ owned_resolution(World, daily_sessions[sid].resolution_id, u)

\* The timeline of a goal: one session a day, for duration_days days.
create_sessions(u, rid, duration_days) ==
    /\ owned_resolution(World, rid, u)
    /\ \A i \in 1..Len(daily_sessions) : daily_sessions[i].resolution_id # rid
    /\ Returns([Database EXCEPT !.daily_sessions =
                  @ \o [d \in 1..duration_days |-> DailySession(rid, d, FALSE)]],
               NoBody(201))

\* what generate_quiz returns: it raises, or a dict whose questions (none,
\* when the key is missing) each name a concept
QuestionLists ==
    {<<>>, <<"loops">>, <<"loops", "types">>, <<"loops", "loops">>}
QuizDataReplies ==
    [raises : {TRUE}, questions : {<<>>}]
    \cup [raises : {FALSE}, questions : QuestionLists]

get_or_generate_quiz(u, sid, quiz_data) ==
    IF ~owned_session(sid, u)
    THEN Returns(Database, HTTPException(404, "Session not found"))
    ELSE IF sid \in DOMAIN quizzes
    THEN Returns(Database, Response(200, FALSE, sid))
    ELSE IF quiz_data.raises
    THEN Returns(Database, NoBody(500))
    ELSE Returns([Database EXCEPT !.quizzes =
                    [x \in DOMAIN quizzes \cup {sid} |->
                       IF x = sid THEN Quiz(quiz_data.questions)
                       ELSE quizzes[x]]],
                 Response(200, TRUE, sid))

\* A submission answers a question correctly, wrongly, or not at all.
Outcomes == {"correct", "wrong", "none"}
AnswerOutcomes(sid) ==
    IF sid \in DOMAIN quizzes
    THEN [1..Len(quizzes[sid].questions) -> Outcomes]
    ELSE {<<>>}

\* what adapt_learning_path returns: it raises (the runner's call of the
\* oracle), or a plan with or without reinforcement_content
AdaptationReplies ==
    {[raises |-> TRUE, reinforcement_content |-> FALSE],
     [raises |-> FALSE, reinforcement_content |-> FALSE],
     [raises |-> FALSE, reinforcement_content |-> TRUE]}

\* The response: oracle, the adaptation plan was requested; analysis, the
\* reinforcement session was created.
submit_quiz(u, sid, outcomes, adaptation) ==
    IF ~owned_session(sid, u)
    THEN Returns(Database, HTTPException(404, "Session not found"))
    ELSE IF sid \notin DOMAIN quizzes
    THEN Returns(Database, HTTPException(400, "Quiz not found"))
    ELSE
      LET session == daily_sessions[sid]
          rid == session.resolution_id
          questions == quizzes[sid].questions
          correct == {i \in DOMAIN questions : outcomes[i] = "correct"}
          wrong == {i \in DOMAIN questions : outcomes[i] = "wrong"}
          correct_count == Cardinality(correct)
          strong_concepts == {questions[i] : i \in correct}
          weak_concepts == {questions[i] : i \in wrong}
          total_questions == Len(questions)
          score == IF total_questions > 0
                   THEN (100 * correct_count) \div total_questions ELSE 0
          passed == score >= 70
          graded ==
            [Database EXCEPT
               !.quizzes[sid] = [@ EXCEPT !.is_completed = TRUE,
                                          !.score = score,
                                          !.passed = PyBool(passed)],
               !.current_day[rid] =
                   IF passed /\ session.day_number = @ + 1 THEN @ + 1 ELSE @]
          committed ==
            db_commit(_update_learning_metrics(graded, rid, weak_concepts,
                                               strong_concepts))
      IN  /\ \A m \in metrics_of(Database, rid,
                                 weak_concepts \cup strong_concepts) :
                m.attempts < MaxAttempts
          /\ Len(daily_sessions) < MaxSessionRows
          /\ IF ~passed /\ weak_concepts # {}
             THEN IF adaptation.raises
                  THEN Returns(committed, NoBody(500))
                  ELSE IF adaptation.reinforcement_content
                  THEN Returns(_create_reinforcement_session(
                                 committed, rid, session.day_number),
                               [Response(200, TRUE, sid)
                                  EXCEPT !.analysis = TRUE])
                  ELSE Returns(committed, Response(200, TRUE, sid))
             ELSE Returns(committed, Response(200, FALSE, sid))

\* select(DailySession).where(resolution_id == ..., day_number == ...)
sessions_on(rid, day_number) ==
    {i \in 1..Len(daily_sessions) :
        /\ daily_sessions[i].resolution_id = rid
        /\ daily_sessions[i].day_number = day_number}

\* scalar_one_or_none() raises MultipleResultsFound on two rows
get_today_session(u, rid) ==
    IF ~owned_resolution(World, rid, u)
    THEN Returns(Database, HTTPException(404, "Resolution not found"))
    ELSE LET found == sessions_on(rid, current_day[rid] + 1)
         IN  IF Cardinality(found) > 1
             THEN Returns(Database, HTTPException(500, "MultipleResultsFound"))
             ELSE IF found = {}
             THEN Returns(Database, HTTPException(200, "null"))
             ELSE Returns(Database,
                          Response(200, FALSE, CHOOSE i \in found : TRUE))

\* ------------------------------------------------------ the specifications
\* no pure function is being called
NoCall == [fn |-> "none"]

Init ==
    /\ today = 1
    /\ resolutions = <<>>
    /\ streaks = <<>>
    /\ progress_logs = <<>>
    /\ verification_quizzes = <<>>
    /\ milestones = {}
    /\ next_milestone_id = 1
    /\ ai_feedback = <<>>
    /\ weekly_goals = <<>>
    /\ north_star_goals = <<>>
    /\ daily_sessions = <<>>
    /\ quizzes = <<>>
    /\ current_day = [rid \in ResolutionIds |-> 0]
    /\ learning_metrics = {}
    /\ requests = [r \in RequestIds |-> Idle]
    /\ last_response = NoBody(0)
    /\ call = NoCall
    /\ returned = NoScore

LogIds == 1..MaxLogs
QuizIds == 1..MaxQuizzes
MilestoneIds == 1..MaxMilestoneId
FeedbackIds == 1..MaxFeedback
\* the user of the requests of a specification that has one user
Callers == {1}

\* One request at a time never has two submissions of a quiz accepted: one
\* answer sheet.
OneSheet == {"a"}

\* One request at a time, the calendar running: the oracles answer well-formed
\* JSON, a quiz with questions and a grading that passes or fails.
PlainQuizReplies == {reply \in QuizReplies : reply.has_questions}
PlainGradingReplies == {reply \in GradingReplies : reply.has_passed}

\* progress logging and verification, one request at a time
Next ==
    \/ AdvanceDay
    \/ \E u \in Callers, fails \in BOOLEAN : create_resolution(u, fails)
    \/ \E u \in Callers, rid \in ResolutionIds : log_progress(u, rid)
    \/ \E u \in Callers, log_id \in LogIds, reply \in PlainQuizReplies :
          generate_progress_verification(u, log_id, reply)
    \/ \E u \in Callers, quiz_id \in QuizIds, a \in OneSheet,
          reply \in PlainGradingReplies :
          submit_verification_quiz(u, quiz_id, a, reply)

Spec == Init /\ [][Next]_vars

\* progress logging, two requests may overlap
NextConcLog ==
    \/ AdvanceDay
    \/ \E r \in RequestIds, u \in Callers : CreateResolutionCommit(r, u)
    \/ \E r \in RequestIds : CreateResolutionStreak(r)
    \/ \E r \in RequestIds : request_fails(r)
    \/ \E r \in RequestIds, u \in Callers, rid \in ResolutionIds :
          LogProgressLoad(r, u, rid)
    \/ \E r \in RequestIds : LogProgressCheck(r)
    \/ \E r \in RequestIds : LogProgressCommit(r)

SpecConcLog == Init /\ [][NextConcLog]_vars

\* verification on one day, two requests may overlap
NextConcSubmit ==
    \/ \E u \in Callers, fails \in BOOLEAN : create_resolution(u, fails)
    \/ \E u \in Callers, rid \in ResolutionIds : log_progress(u, rid)
    \/ \E r \in RequestIds : request_fails(r)
    \/ \E r \in RequestIds, u \in Callers, log_id \in LogIds :
          GenerateLoad(r, u, log_id)
    \/ \E r \in RequestIds, reply \in QuizReplies : GenerateCommit(r, reply)
    \/ \E r \in RequestIds, u \in Callers, quiz_id \in QuizIds,
          a \in AnswerSheets : SubmitLoad(r, u, quiz_id, a)
    \/ \E r \in RequestIds : SubmitLoadLog(r)
    \/ \E r \in RequestIds, reply \in GradingReplies : SubmitGrade(r, reply)
    \/ \E r \in RequestIds : SubmitCommit(r)

SpecConcSubmit == Init /\ [][NextConcSubmit]_vars

\* The event loop resumes a request whose await has completed, and the oracle
\* answers every call (with a result, an error or a malformed reply).  The
\* flush of a submission waits for the row lock of another session; the
\* database grants the lock to the waiter when that session ends.
RequestRuns(r) ==
    /\ WF_vars(\E reply \in QuizReplies : GenerateCommit(r, reply))
    /\ WF_vars(SubmitLoadLog(r))
    /\ SF_vars(\E reply \in GradingReplies : SubmitGrade(r, reply))
    /\ WF_vars(SubmitCommit(r))

\* verification requests that may overlap, with every answer of the oracles
NextVerification ==
    \/ \E u \in Callers : create_resolution(u, FALSE)
    \/ \E u \in Callers, rid \in ResolutionIds : log_progress(u, rid)
    \/ \E r \in RequestIds : request_fails(r)
    \/ \E r \in RequestIds, u \in Callers, log_id \in LogIds :
          GenerateLoad(r, u, log_id)
    \/ \E r \in RequestIds, reply \in QuizReplies : GenerateCommit(r, reply)
    \/ \E r \in RequestIds, u \in Callers, quiz_id \in QuizIds,
          a \in OneSheet : SubmitLoad(r, u, quiz_id, a)
    \/ \E r \in RequestIds : SubmitLoadLog(r)
    \/ \E r \in RequestIds, reply \in GradingReplies : SubmitGrade(r, reply)
    \/ \E r \in RequestIds : SubmitCommit(r)

SpecVerification == Init /\ [][NextVerification]_vars

FairVerification == SpecVerification /\ \A r \in RequestIds : RequestRuns(r)

\* the regeneration oracles of a specification whose feedback is on
\* milestones only
RoadmapRegenerationReplies ==
    {reply \in RegenerationReplies : reply.artifact.kind = "error"}

\* the roadmap of a goal, one request at a time
NextRoadmap ==
    \/ \E u \in Callers, fails \in BOOLEAN : create_resolution(u, fails)
    \/ \E u \in Callers, rid \in ResolutionIds, reply \in RoadmapReplies :
          generate_resolution_roadmap(u, rid, reply)
    \/ \E u \in Callers, rid \in ResolutionIds, n \in 0..MaxManual :
          save_manual_roadmap(u, rid, n)
    \/ \E u \in Callers, mid \in MilestoneIds : update_milestone(u, mid)
    \/ \E u \in Callers, mid \in MilestoneIds : complete_milestone(u, mid)
    \/ \E u \in Callers, mid \in MilestoneIds, rating \in KnownRatings :
          submit_ai_feedback(u, "roadmap", mid, rating)
    \/ \E u \in Callers, fid \in FeedbackIds,
          reply \in RoadmapRegenerationReplies :
          regenerate_from_feedback(u, fid, reply)

SpecRoadmap == Init /\ [][NextRoadmap]_vars

\* the artifact a feedback names: the first one of its kind, generated or not
ContentIds == {1}

\* the generated artifacts of one goal and the feedback on them
NextFeedback ==
    \/ \E u \in Callers : create_resolution(u, FALSE)
    \/ \E u \in Callers, rid \in ResolutionIds, reply \in RoadmapReplies :
          generate_resolution_roadmap(u, rid, reply)
    \/ \E u \in Callers, rid \in ResolutionIds, reply \in ArtifactReplies :
          generate_resolution_weekly_goal(u, rid, reply)
    \/ \E u \in Callers, rid \in ResolutionIds, reply \in ArtifactReplies :
          generate_resolution_north_star(u, rid, reply)
    \/ \E u \in Callers, content_type \in ContentTypes,
          content_id \in ContentIds, rating \in Ratings :
          submit_ai_feedback(u, content_type, content_id, rating)
    \/ \E u \in Callers, fid \in FeedbackIds, reply \in RegenerationReplies :
          regenerate_from_feedback(u, fid, reply)

SpecFeedback == Init /\ [][NextFeedback]_vars

\* Two users.  The first creates the goal, its roadmap and its artifacts; both
\* log, verify, give feedback (one row) and ask for regenerations; the second
\* asks for the edit and the completion of milestones.  The oracles answer
\* well-formed objects.
Users == {1, 2}
PlainArtifactReplies ==
    {reply \in ArtifactReplies : reply.is_dict /\ reply.has_text}
PlainRegenerationReplies ==
    {reply \in RegenerationReplies :
        \/ reply.roadmap.orders = <<1, 2>>
        \/ reply.artifact \in PlainArtifactReplies}

NextOwnership ==
    \/ \E u \in Callers : create_resolution(u, FALSE)
    \/ \E u \in Users, rid \in ResolutionIds : log_progress(u, rid)
    \/ \E u \in Users, log_id \in LogIds, reply \in PlainQuizReplies :
          generate_progress_verification(u, log_id, reply)
    \/ \E u \in Users, quiz_id \in QuizIds, a \in OneSheet,
          reply \in PlainGradingReplies :
          submit_verification_quiz(u, quiz_id, a, reply)
    \/ \E u \in Callers, rid \in ResolutionIds, n \in 1..MaxManual :
          save_manual_roadmap(u, rid, n)
    \/ \E u \in Users \ Callers, mid \in MilestoneIds :
          update_milestone(u, mid)
    \/ \E u \in Users \ Callers, mid \in MilestoneIds :
          complete_milestone(u, mid)
    \/ \E u \in Callers, rid \in ResolutionIds,
          reply \in PlainArtifactReplies :
          generate_resolution_weekly_goal(u, rid, reply)
    \/ \E u \in Callers, rid \in ResolutionIds,
          reply \in PlainArtifactReplies :
          generate_resolution_north_star(u, rid, reply)
    \/ \E u \in Users, content_type \in ContentTypes,
          content_id \in ContentIds, rating \in KnownRatings :
          /\ ai_feedback = <<>>
          /\ submit_ai_feedback(u, content_type, content_id, rating)
    \/ \E u \in Users, fid \in FeedbackIds,
          reply \in PlainRegenerationReplies :
          regenerate_from_feedback(u, fid, reply)

SpecOwnership == Init /\ [][NextOwnership]_vars

\* the roadmap and its milestones, without the feedback on them
NextMilestones ==
    \/ \E u \in Callers, fails \in BOOLEAN : create_resolution(u, fails)
    \/ \E u \in Callers, rid \in ResolutionIds, reply \in RoadmapReplies :
          generate_resolution_roadmap(u, rid, reply)
    \/ \E u \in Callers, rid \in ResolutionIds, n \in 0..MaxManual :
          save_manual_roadmap(u, rid, n)
    \/ \E u \in Callers, mid \in MilestoneIds : update_milestone(u, mid)
    \/ \E u \in Callers, mid \in MilestoneIds : complete_milestone(u, mid)

SpecMilestones == Init /\ [][NextMilestones]_vars

\* progress, verification and the roadmap of one goal on one day, one request
\* at a time
NextAdaptive ==
    \/ \E u \in Callers, fails \in BOOLEAN : create_resolution(u, fails)
    \/ \E u \in Callers, rid \in ResolutionIds, n \in 0..MaxManual :
          save_manual_roadmap(u, rid, n)
    \/ \E u \in Callers, mid \in MilestoneIds : complete_milestone(u, mid)
    \/ \E u \in Callers, rid \in ResolutionIds : log_progress(u, rid)
    \/ \E u \in Callers, log_id \in LogIds, reply \in PlainQuizReplies :
          generate_progress_verification(u, log_id, reply)
    \/ \E u \in Callers, quiz_id \in QuizIds, a \in OneSheet,
          reply \in PlainGradingReplies :
          submit_verification_quiz(u, quiz_id, a, reply)
    \/ \E u \in Callers, rid \in ResolutionIds,
          reply \in LivingRoadmapReplies :
          refresh_living_roadmap(u, rid, reply)

SpecAdaptive == Init /\ [][NextAdaptive]_vars

\* the inputs of the likelihood score
StreakData ==
    [current_streak : 0..MaxStreak, longest_streak : 0..MaxStreak]
MilestoneDicts ==
    UNION {[1..n -> [status : {"pending", "completed"}]] :
              n \in 0..MaxMilestoneDicts}
\* n non-empty progress logs, or one non-empty and one empty
RecentLogs ==
    {[i \in 1..n |-> TRUE] : n \in 0..MaxRecentLogs} \cup {<<TRUE, FALSE>>}
VerificationScores ==
    {NoScores, Scores(<<>>), Scores(<<80, 90>>), Scores(<<0>>),
     Scores(<<100>>), Scores(<<50>>)}

InitLikelihood ==
    /\ today = 1
    /\ resolutions = <<>>
    /\ streaks = <<>>
    /\ progress_logs = <<>>
    /\ verification_quizzes = <<>>
    /\ milestones = {}
    /\ next_milestone_id = 1
    /\ ai_feedback = <<>>
    /\ weekly_goals = <<>>
    /\ north_star_goals = <<>>
    /\ daily_sessions = <<>>
    /\ quizzes = <<>>
    /\ current_day = [rid \in ResolutionIds |-> 0]
    /\ learning_metrics = {}
    /\ requests = [r \in RequestIds |-> Idle]
    /\ last_response = NoBody(0)
    /\ call \in [fn : {"calculate_goal_likelihood_score"},
                  streak_data : StreakData,
                  milestones : MilestoneDicts,
                  progress_logs : RecentLogs,
                  verification_scores : VerificationScores]
    /\ returned = NoScore

\* the likelihood score on every input
NextLikelihood == CalculateGoalLikelihoodScore
SpecLikelihood == InitLikelihood /\ [][NextLikelihood]_vars

\* the inputs of the refresh date: the four cadences and an unknown one, a
\* clock late enough for a last refresh four weeks and more before it
Cadences == {"daily", "3x_week", "weekdays", "weekly", "fortnightly"}
Nows == 28..(MaxClock \div 2)
LastRefreshes == {NoDate} \cup 0..MaxClock

InitRefreshDate ==
    /\ today = 1
    /\ resolutions = <<>>
    /\ streaks = <<>>
    /\ progress_logs = <<>>
    /\ verification_quizzes = <<>>
    /\ milestones = {}
    /\ next_milestone_id = 1
    /\ ai_feedback = <<>>
    /\ weekly_goals = <<>>
    /\ north_star_goals = <<>>
    /\ daily_sessions = <<>>
    /\ quizzes = <<>>
    /\ current_day = [rid \in ResolutionIds |-> 0]
    /\ learning_metrics = {}
    /\ requests = [r \in RequestIds |-> Idle]
    /\ last_response = NoBody(0)
    /\ call \in [fn : {"calculate_next_refresh_date"}, cadence : Cadences,
                  last_refresh : LastRefreshes, now : Nows]
    /\ returned = NoScore

\* the refresh date on every input
NextRefreshDate == CalculateNextRefreshDate
SpecRefreshDate == InitRefreshDate /\ [][NextRefreshDate]_vars

\* the learning sessions: the timeline, the quizzes on it and the metrics
NextSessions ==
    \/ \E u \in Callers : create_resolution(u, FALSE)
    \/ \E u \in Callers, rid \in ResolutionIds, n \in 1..MaxSessionDays :
          create_sessions(u, rid, n)
    \/ \E u \in Callers, sid \in SessionIds, quiz_data \in QuizDataReplies :
          get_or_generate_quiz(u, sid, quiz_data)
    \/ \E u \in Callers, sid \in SessionIds, adaptation \in AdaptationReplies :
          \E outcomes \in AnswerOutcomes(sid) :
             submit_quiz(u, sid, outcomes, adaptation)
    \/ \E u \in Callers, rid \in ResolutionIds : get_today_session(u, rid)

SpecSessions == Init /\ [][NextSessions]_vars

\* ---------------------------------------------------------------- the claims
\* the milestones of goal rid that are in_progress
InProgress(rid) ==
    {m \in milestones : m.resolution_id = rid /\ m.status = "in_progress"}

\* C1: whatever roadmap generations, manual saves, regenerations, edits and
\* completions (of milestones of any status) were made, a goal has at most
\* one milestone whose status is in_progress.
C1_OneInProgress ==
    \A rid \in ResolutionIds : Cardinality(InProgress(rid)) <= 1

\* C2: the longest streak of every Streak row is at least its current streak.
C2_LongestAtLeastCurrent ==
    \A rid \in DOMAIN streaks :
        streaks[rid].longest_streak >= streaks[rid].current_streak

\* a gap was logged over: the run restarted at 1 below a longest run of 2
C2_Witness ==
    \E rid \in DOMAIN streaks :
        /\ streaks[rid].current_streak = 1
        /\ streaks[rid].longest_streak = 2

\* the calendar days of goal rid's progress entries
LogDays(rid) ==
    {progress_logs[i].date :
        i \in {j \in 1..Len(progress_logs) :
                 progress_logs[j].resolution_id = rid}}

\* the days are a run without a gap
Gapless(days) ==
    \A d \in days, e \in days : \A x \in d..e : x \in days

\* C3: a goal whose streak started fresh and whose k >= 1 entries were logged
\* on consecutive days without a gap has current_streak = k and last_log_date
\* = the day of the last entry.
C3_RunLength ==
    \A rid \in DOMAIN streaks :
        (LogDays(rid) # {} /\ Gapless(LogDays(rid)))
            => /\ streaks[rid].current_streak = Cardinality(LogDays(rid))
               /\ \A d \in LogDays(rid) : d <= streaks[rid].last_log_date
               /\ streaks[rid].last_log_date \in LogDays(rid)

\* three entries on three consecutive days
C3_Witness ==
    \E rid \in DOMAIN streaks :
        /\ Gapless(LogDays(rid))
        /\ Cardinality(LogDays(rid)) = 3
        /\ streaks[rid].current_streak = 3

\* this step adds a progress entry for goal rid: a log_progress that succeeds
Logged(rid) ==
    /\ Len(progress_logs') = Len(progress_logs) + 1
    /\ progress_logs'[Len(progress_logs')].resolution_id = rid

\* C4: a successful log_progress on a day two or more days after
\* last_log_date sets current_streak to 1 and leaves longest_streak as it was.
C4_GapResets ==
    [][\A rid \in DOMAIN streaks :
          (/\ streaks[rid].last_log_date # NoDate
           /\ streaks[rid].last_log_date <= today - 2
           /\ Logged(rid))
             => /\ streaks'[rid].current_streak = 1
                /\ streaks'[rid].longest_streak = streaks[rid].longest_streak
      ]_vars

\* entries on days 1 and 2, none on day 3, one on day 4
C4_Witness ==
    \E rid \in DOMAIN streaks :
        /\ LogDays(rid) = {1, 2, 4}
        /\ streaks[rid].current_streak = 1
        /\ streaks[rid].longest_streak = 2
        /\ streaks[rid].last_log_date = 4

\* goal rid has a progress entry dated day
HasEntry(rid, day) ==
    \E i \in 1..Len(progress_logs) :
        /\ progress_logs[i].resolution_id = rid
        /\ progress_logs[i].date = day

\* C5: a log_progress of the owner for a goal that has an entry for today is
\* answered 400 (the conflict) and leaves the streaks and the progress entries
\* unchanged.
C5_SameDayRejected ==
    [][\A u \in Callers, rid \in DOMAIN resolutions :
          (/\ resolutions[rid].user_id = u
           /\ HasEntry(rid, today)
           /\ log_progress(u, rid))
             => /\ last_response'.code = 400
                /\ UNCHANGED <<streaks, progress_logs>>
      ]_vars

\* a log_progress was refused because today has an entry
C5_Witness ==
    /\ last_response.code = 400
    /\ last_response.detail = "Already logged progress for today"
    /\ \E rid \in DOMAIN resolutions : HasEntry(rid, today)

\* C6: no two progress entries have the same goal and the same calendar day.
C6_OneEntryPerDay ==
    \A i \in 1..Len(progress_logs), j \in 1..Len(progress_logs) :
        (/\ progress_logs[i].resolution_id = progress_logs[j].resolution_id
         /\ progress_logs[i].date = progress_logs[j].date)
            => i = j

\* no two quizzes belong to the same progress entry
OneQuizPerEntry ==
    \A p \in 1..Len(verification_quizzes), q \in 1..Len(verification_quizzes) :
        verification_quizzes[p].progress_log_id
              = verification_quizzes[q].progress_log_id
            => p = q

C8_CompletedRejected ==
    [][\A r \in RequestIds, u \in Callers, quiz_id \in QuizIds,
          a \in AnswerSheets :
          (/\ quiz_id <= Len(verification_quizzes)
           /\ verification_quizzes[quiz_id].is_completed
           /\ SubmitLoad(r, u, quiz_id, a))
             => /\ last_response'.code = 400
                /\ ~last_response'.oracle
                /\ requests'[r].pc = "idle"
                /\ UNCHANGED <<verification_quizzes, progress_logs, streaks>>
      ]_vars

\* a submission was refused because the quiz is completed
C8_Witness ==
    /\ last_response.code = 400
    /\ last_response.detail = "Quiz already submitted"
    /\ \E q \in 1..Len(verification_quizzes) :
          verification_quizzes[q].is_completed

\* the completed quizzes of goal rid's entries
CompletedQuizzes(rid) ==
    {q \in 1..Len(verification_quizzes) :
        /\ verification_quizzes[q].is_completed
        /\ progress_logs[verification_quizzes[q].progress_log_id]
              .resolution_id = rid}

\* C9: a quiz's result is applied once, also when submissions of the quiz
\* overlap: the responses, score and passed of a completed quiz are not
\* written again, and total_verified_days counts each quiz at most once.
C9_AppliedOnce ==
    [][/\ \A q \in 1..Len(verification_quizzes) :
            verification_quizzes[q].is_completed
               => /\ verification_quizzes'[q].responses
                        = verification_quizzes[q].responses
                  /\ verification_quizzes'[q].score
                        = verification_quizzes[q].score
                  /\ verification_quizzes'[q].passed
                        = verification_quizzes[q].passed
       /\ \A rid \in DOMAIN streaks' :
            streaks'[rid].total_verified_days
               <= Cardinality(CompletedQuizzes(rid)')
      ]_vars

\* C10: a new quiz is not completed; a quiz stays with its entry and keeps
\* its questions; is_completed never goes back to false; a completed quiz
\* keeps its responses, score and passed.
C10_ForwardOnly ==
    [][/\ Len(verification_quizzes') >= Len(verification_quizzes)
       /\ \A q \in 1..Len(verification_quizzes') :
            IF q > Len(verification_quizzes)
            THEN ~verification_quizzes'[q].is_completed
            ELSE /\ verification_quizzes'[q].progress_log_id
                       = verification_quizzes[q].progress_log_id
                 /\ verification_quizzes'[q].questions
                       = verification_quizzes[q].questions
                 /\ verification_quizzes[q].is_completed
                       => verification_quizzes'[q] = verification_quizzes[q]
      ]_vars

\* the milestones with id mid (ids are unique)
WithId(mid) == {m \in milestones : m.id = mid}

\* the pending milestones of goal rid, mid apart
OtherPending(rid, mid) ==
    {m \in milestones :
        m.resolution_id = rid /\ m.id # mid /\ m.status = "pending"}

\* the milestones of goal rid that this step takes from pending to in_progress
Promoted(rid) ==
    {m \in milestones :
        /\ m.resolution_id = rid
        /\ m.status = "pending"
        /\ [m EXCEPT !.status = "in_progress"] \in milestones'}

\* C11: complete_milestone on an in_progress milestone of a goal that has
\* pending milestones completes it with completed_at set, promotes one pending
\* milestone, one of the lowest order, and no other, sets current_milestone to
\* its order and leaves the goal's status.
C11_CompletePromotesLowest ==
    [][\A u \in Callers, mid \in MilestoneIds :
          \A n \in WithId(mid) :
             (/\ n.resolution_id \in DOMAIN resolutions
              /\ resolutions[n.resolution_id].user_id = u
              /\ n.status = "in_progress"
              /\ OtherPending(n.resolution_id, mid) # {}
              /\ complete_milestone(u, mid))
                => /\ \A c \in {m \in milestones' : m.id = mid} :
                        c.status = "completed" /\ c.completed_at # NoDate
                   /\ Cardinality(Promoted(n.resolution_id)) = 1
                   /\ \A p \in Promoted(n.resolution_id) :
                        /\ \A o \in OtherPending(n.resolution_id, mid) :
                              p.order <= o.order
                        /\ resolutions'[n.resolution_id].current_milestone
                              = p.order
                   /\ \A m \in milestones :
                        (m.id # mid /\ m \notin Promoted(n.resolution_id))
                           => m \in milestones'
                   /\ resolutions'[n.resolution_id].status
                        = resolutions[n.resolution_id].status
      ]_vars

\* four milestones: 1 and 2 completed, 3 in_progress, 4 pending
C11_Witness ==
    \E rid \in DOMAIN resolutions :
        /\ resolutions[rid].current_milestone = 3
        /\ resolutions[rid].status = "active"
        /\ {m.status : m \in {x \in milestones : x.resolution_id = rid
                                                  /\ x.order <= 2}}
              = {"completed"}
        /\ \E m \in milestones :
              m.resolution_id = rid /\ m.order = 3 /\ m.status = "in_progress"
        /\ \E m \in milestones :
              m.resolution_id = rid /\ m.order = 4 /\ m.status = "pending"

\* C12: a complete_milestone after which no pending milestone remains sets
\* the goal's status to completed and leaves no milestone of the goal
\* in_progress.
C12_CompletedGoalNoInProgress ==
    [][\A u \in Callers, mid \in MilestoneIds :
          \A n \in WithId(mid) :
             (/\ n.resolution_id \in DOMAIN resolutions
              /\ resolutions[n.resolution_id].user_id = u
              /\ OtherPending(n.resolution_id, mid) = {}
              /\ complete_milestone(u, mid))
                => /\ resolutions'[n.resolution_id].status = "completed"
                   /\ \A m \in milestones' :
                        m.resolution_id = n.resolution_id
                           => m.status # "in_progress"
      ]_vars

\* C13: a milestone's status stays or moves pending -> in_progress or
\* in_progress -> completed, and a milestone becomes in_progress only in a
\* complete_milestone on another milestone of its goal.
C13_StatusForwardOnly ==
    [][\A m \in milestones : \A t \in {x \in milestones' : x.id = m.id} :
          /\ \/ t.status = m.status
             \/ m.status = "pending" /\ t.status = "in_progress"
             \/ m.status = "in_progress" /\ t.status = "completed"
          /\ (m.status # "in_progress" /\ t.status = "in_progress")
                => \E u \in Callers, mid \in MilestoneIds \ {m.id} :
                      /\ \E n \in WithId(mid) :
                            n.resolution_id = m.resolution_id
                      /\ complete_milestone(u, mid)
      ]_vars

\* progress entry log_id has a quiz
HasQuiz(log_id) ==
    \E q \in 1..Len(verification_quizzes) :
        verification_quizzes[q].progress_log_id = log_id

\* the three questions of _generate_fallback_quiz
ThreeFallbackQuestions ==
    <<[id |-> 1, question_type |-> "recall"],
      [id |-> 2, question_type |-> "application"],
      [id |-> 3, question_type |-> "teach_back"]>>

\* C14: a generate_progress_verification whose oracle call raises or returns
\* text that is no JSON is answered 200 and adds, for the entry, a quiz with
\* the three fallback questions; and whenever a generate call is answered
\* 200, the entry has a quiz.
C14_FallbackQuiz ==
    [][/\ \A r \in RequestIds, reply \in QuizReplies, log_id \in LogIds :
            (/\ requests[r].op = "generate_progress_verification"
             /\ requests[r].pc = "generating"
             /\ requests[r].id = log_id
             /\ GenerateCommit(r, reply))
               => /\ (reply.kind = "error" /\ ~HasQuiz(log_id))
                        => /\ last_response'.code = 200
                           /\ Len(verification_quizzes')
                                 = Len(verification_quizzes) + 1
                           /\ verification_quizzes'[Len(verification_quizzes')]
                                 .progress_log_id = log_id
                           /\ verification_quizzes'[Len(verification_quizzes')]
                                 .questions = ThreeFallbackQuestions
                  /\ last_response'.code = 200 => HasQuiz(log_id)'
       /\ \A r \in RequestIds, u \in Callers, log_id \in LogIds :
            (GenerateLoad(r, u, log_id) /\ requests'[r].pc = "idle"
                /\ last_response'.code = 200)
               => HasQuiz(log_id)'
      ]_vars

\* a generate call that called the oracle was answered 200 and the quiz it
\* names holds the fallback questions
C14_Witness ==
    /\ last_response.code = 200
    /\ last_response.oracle
    /\ last_response.quiz_id \in 1..Len(verification_quizzes)
    /\ verification_quizzes[last_response.quiz_id].questions
          = ThreeFallbackQuestions
    /\ ~verification_quizzes[last_response.quiz_id].is_completed

\* C15: a reply that is JSON of the wrong shape counts as an oracle error: no
\* stored quiz has zero questions, and a grading reply that is no object or
\* lacks overall_score or passed is replaced by the fallback grading (score
\* 0.5, passed).
C15_ShapeValidated ==
    [][/\ \A q \in 1..Len(verification_quizzes') :
            Len(verification_quizzes'[q].questions) > 0
       /\ \A r \in RequestIds, reply \in GradingReplies :
            (/\ requests[r].op = "submit_verification_quiz"
             /\ requests[r].pc = "grading"
             /\ reply.kind = "json"
             /\ ~(reply.is_dict /\ reply.has_score /\ reply.has_passed)
             /\ SubmitGrade(r, reply))
               => /\ requests'[r].pc = "flushed"
                  /\ requests'[r].grading.overall_score = 50
                  /\ requests'[r].grading.passed
      ]_vars

\* C16: a submission whose grading call fails goes on with score 0.5 and
\* passed; committing a submission that holds this result completes the quiz
\* with score 0.5 and passed, verifies the entry with verification_score 0.5,
\* adds 1 to the total_verified_days the request read (when the goal has a
\* streak) and is answered 200.
C16_GradingFallback ==
    [][/\ \A r \in RequestIds, reply \in GradingReplies :
            (/\ requests[r].op = "submit_verification_quiz"
             /\ requests[r].pc = "grading"
             /\ reply.kind = "error"
             /\ SubmitGrade(r, reply))
               => /\ requests'[r].pc = "flushed"
                  /\ requests'[r].grading.overall_score = 50
                  /\ requests'[r].grading.passed
       /\ \A r \in RequestIds, q \in QuizIds, rid \in ResolutionIds :
            (/\ requests[r].op = "submit_verification_quiz"
             /\ requests[r].pc = "flushed"
             /\ requests[r].id = q
             /\ requests[r].log.resolution_id = rid
             /\ requests[r].grading.overall_score = 50
             /\ requests[r].grading.passed
             /\ SubmitCommit(r))
               => /\ last_response'.code = 200
                  /\ verification_quizzes'[q].is_completed
                  /\ verification_quizzes'[q].score = 50
                  /\ verification_quizzes'[q].passed = "True"
                  /\ \A l \in LogIds :
                        l = verification_quizzes[q].progress_log_id
                           => /\ progress_logs'[l].verified
                              /\ progress_logs'[l].verification_score = 50
                  /\ rid \in DOMAIN streaks
                        => /\ streaks'[rid].total_verified_days
                                 = streaks[rid].total_verified_days + 1
                           /\ streaks'[rid].total_verified_days
                                 = requests[r].streak.total_verified_days + 1
      ]_vars

\* a submission was committed with the fallback result
C16_Witness ==
    /\ last_response.code = 200
    /\ last_response.oracle
    /\ \E q \in 1..Len(verification_quizzes) :
          /\ last_response.quiz_id = q
          /\ verification_quizzes[q].is_completed
          /\ verification_quizzes[q].score = 50
          /\ verification_quizzes[q].passed = "True"
          /\ progress_logs[verification_quizzes[q].progress_log_id].verified
          /\ \E rid \in DOMAIN streaks : streaks[rid].total_verified_days = 1

\* C17: the pass decision of a submission is the oracle's passed when the
\* reply has one; for a reply with a score and no passed it is overall_score
\* >= 0.6; and the commit stores that decision on the quiz.
C17_PassDecision ==
    [][/\ \A r \in RequestIds, reply \in GradingReplies :
            (/\ requests[r].op = "submit_verification_quiz"
             /\ requests[r].pc = "grading"
             /\ reply.kind = "json"
             /\ reply.is_dict
             /\ reply.has_score
             /\ SubmitGrade(r, reply))
               => /\ requests'[r].pc = "flushed"
                  /\ requests'[r].grading.passed
                        = IF reply.has_passed THEN reply.passed
                          ELSE reply.overall_score >= 60
       /\ \A r \in RequestIds, q \in QuizIds :
            (/\ requests[r].op = "submit_verification_quiz"
             /\ requests[r].pc = "flushed"
             /\ requests[r].id = q
             /\ SubmitCommit(r))
               => verification_quizzes'[q].passed
                     = PyBool(requests[r].grading.passed)
      ]_vars

\* C18: an accepted submission on a goal with a streak adds 1 to
\* total_verified_days and sets last_verified_date to today when the stored
\* result passes, leaves both when it fails, and in both cases leaves
\* current_streak, longest_streak and last_log_date.
C18_VerifiedDaysFrame ==
    [][\A u \in Callers, q \in QuizIds, a \in OneSheet,
          reply \in PlainGradingReplies, rid \in DOMAIN streaks :
          (/\ q <= Len(verification_quizzes)
           /\ ~verification_quizzes[q].is_completed
           /\ progress_logs[verification_quizzes[q].progress_log_id]
                 .resolution_id = rid
           /\ resolutions[rid].user_id = u
           /\ submit_verification_quiz(u, q, a, reply))
             => /\ verification_quizzes'[q].is_completed
                /\ IF verification_quizzes'[q].passed = "True"
                   THEN /\ streaks'[rid].total_verified_days
                              = streaks[rid].total_verified_days + 1
                        /\ streaks'[rid].last_verified_date = today
                   ELSE /\ streaks'[rid].total_verified_days
                              = streaks[rid].total_verified_days
                        /\ streaks'[rid].last_verified_date
                              = streaks[rid].last_verified_date
                /\ streaks'[rid].current_streak = streaks[rid].current_streak
                /\ streaks'[rid].longest_streak = streaks[rid].longest_streak
                /\ streaks'[rid].last_log_date = streaks[rid].last_log_date
      ]_vars

\* one entry failed its verification, another passed it on a later day than
\* the last log
C18_Witness ==
    \E rid \in DOMAIN streaks :
        /\ streaks[rid].total_verified_days = 1
        /\ streaks[rid].last_verified_date > streaks[rid].last_log_date
        /\ streaks[rid].current_streak = 2
        /\ \E p \in 1..Len(verification_quizzes) :
              verification_quizzes[p].passed = "True"
        /\ \E f \in 1..Len(verification_quizzes) :
              verification_quizzes[f].passed = "False"

\* C19: for every input (streak counters of 0 and more, the current one above
\* the longest and both 0 included, no milestones, no progress logs, scores
\* absent, empty or present) calculate_goal_likelihood_score returns a value
\* between 0 and 1, in hundredths between 0 and 100.
C19_LikelihoodInUnitInterval ==
    (call.fn = "calculate_goal_likelihood_score" /\ returned # NoScore)
        => returned \in 0..100

\* the call returned on no milestones, no logs, no scores and a current streak
\* above the longest one
C19_Witness ==
    /\ call.fn = "calculate_goal_likelihood_score"
    /\ call.milestones = <<>>
    /\ call.progress_logs = <<>>
    /\ ~call.verification_scores.given
    /\ call.streak_data.current_streak > call.streak_data.longest_streak
    /\ returned \in 0..100

\* The reference formula over the denominator 7000 * m * t * n, where m is
\* max(longest_streak, 7), t is max(total, 1) and n the number of scores (1
\* when there are none, the mean then being 50 percent).
ReferenceTerms ==
    LET c == call.streak_data.current_streak
        m == IF call.streak_data.longest_streak > 7
             THEN call.streak_data.longest_streak ELSE 7
        total == Len(call.milestones)
        t == IF total > 1 THEN total ELSE 1
        k == Cardinality({i \in 1..total :
                             call.milestones[i].status = "completed"})
        logged == Cardinality({i \in 1..Len(call.progress_logs) :
                                  call.progress_logs[i]})
        none == ~call.verification_scores.given
                    \/ call.verification_scores.list = <<>>
        n == IF none THEN 1 ELSE Len(call.verification_scores.list)
        v == IF none THEN 50 ELSE sum(call.verification_scores.list)
    IN  [den |-> 7000 * m * t * n,
         num |-> 3 * (IF c < m THEN c ELSE m) * 700 * t * n
                 + 3 * k * 700 * m * n
                 + 2 * (IF logged < 7 THEN logged ELSE 7) * 100 * m * t * n
                 + 2 * v * 7 * m * t]

TheExample ==
    /\ call.fn = "calculate_goal_likelihood_score"
    /\ call.streak_data = [current_streak |-> 5, longest_streak |-> 10]
    /\ Len(call.milestones) = 4
    /\ Cardinality({i \in 1..4 : call.milestones[i].status = "completed"}) = 2
    /\ call.progress_logs = [i \in 1..7 |-> TRUE]
    /\ call.verification_scores = Scores(<<80, 90>>)

\* C20: calculate_goal_likelihood_score returns the reference formula
\* 0.3*min(current_streak/max(longest_streak,7),1) + 0.3*completed/max(total,1)
\* + 0.2*min(recent_logs/7,1) + 0.2*v rounded to two decimals, v being the
\* mean of the verification scores or 0.5 without any: the result is a
\* hundredth nearest to the formula's value, and 0.67 on current_streak 5,
\* longest_streak 10, 2 of 4 milestones completed, 7 logs, scores [0.8, 0.9].
C20_ReferenceFormula ==
    (call.fn = "calculate_goal_likelihood_score" /\ returned # NoScore)
        => /\ LET ref == ReferenceTerms
                  diff == returned * ref.den - 100 * ref.num
              IN  2 * (IF diff < 0 THEN -diff ELSE diff) <= ref.den
           /\ TheExample => returned = 67

\* the call returned 0.67 on the example
C20_Witness ==
    /\ TheExample
    /\ returned = 67

\* C22: calculate_next_refresh_date returns a date strictly after the now of
\* the call, for every cadence (daily, 3x_week, weekdays, weekly, an unknown
\* one) and every last_refresh (absent, long past, now minus the interval, in
\* the future).
C22_RefreshAfterNow ==
    (call.fn = "calculate_next_refresh_date" /\ returned # NoScore)
        => returned > call.now

\* the call returned on a last refresh exactly one interval before now
C22_Witness ==
    /\ call.fn = "calculate_next_refresh_date"
    /\ call.cadence = "weekly"
    /\ call.last_refresh = call.now - 28
    /\ returned > call.now

\* the interval of the claim, in days
IntervalDays ==
    IF call.cadence = "daily" THEN 7
    ELSE IF call.cadence = "weekly" THEN 28
    ELSE 14

\* C23: calculate_next_refresh_date returns (last_refresh or now) + interval
\* when that is after now, and now + interval otherwise; the interval is 1
\* week for daily, 2 weeks for 3x_week and weekdays, 4 weeks for weekly and 2
\* weeks for any other cadence.
C23_RefreshDateFormula ==
    (call.fn = "calculate_next_refresh_date" /\ returned # NoScore)
        => LET base == IF call.last_refresh = NoDate
                       THEN call.now ELSE call.last_refresh
           IN  IF base + IntervalDays > call.now
               THEN returned = base + IntervalDays
               ELSE returned = call.now + IntervalDays

\* the call returned last_refresh + 4 weeks for a weekly goal refreshed a week
\* ago
C23_Witness ==
    /\ call.fn = "calculate_next_refresh_date"
    /\ call.cadence = "weekly"
    /\ call.last_refresh = call.now - 7
    /\ returned = call.now + 21

\* C24: update_milestone sets is_edited on the edited milestone and
\* roadmap_needs_refresh on its goal, and leaves the status and completed_at
\* of every milestone of the goal, the goal's current_milestone and the
\* goal's status as they were.
C24_EditFrame ==
    [][\A u \in Callers, mid \in MilestoneIds :
          \A n \in {m \in milestones : m.id = mid} :
             (/\ n.resolution_id \in DOMAIN resolutions
              /\ resolutions[n.resolution_id].user_id = u
              /\ update_milestone(u, mid))
                => /\ [n EXCEPT !.is_edited = TRUE] \in milestones'
                   /\ resolutions'[n.resolution_id].roadmap_needs_refresh
                   /\ \A m \in milestones :
                        m.resolution_id = n.resolution_id
                           => \E k \in milestones' :
                                 /\ k.id = m.id
                                 /\ k.status = m.status
                                 /\ k.completed_at = m.completed_at
                   /\ Cardinality(milestones') = Cardinality(milestones)
                   /\ resolutions'[n.resolution_id].current_milestone
                        = resolutions[n.resolution_id].current_milestone
                   /\ resolutions'[n.resolution_id].status
                        = resolutions[n.resolution_id].status
      ]_vars

\* the in_progress milestone of a goal was edited: it is still the current
\* one, a completed one before it
C24_Witness ==
    \E m \in milestones :
        /\ m.is_edited
        /\ m.status = "in_progress"
        /\ m.resolution_id \in DOMAIN resolutions
        /\ resolutions[m.resolution_id].roadmap_needs_refresh
        /\ resolutions[m.resolution_id].current_milestone = m.order
        /\ resolutions[m.resolution_id].status = "active"
        /\ \E c \in milestones :
              /\ c.resolution_id = m.resolution_id
              /\ c.status = "completed"
              /\ c.completed_at # NoDate

\* the verification scores of the entries of goal rid, as a list
ScoresOfGoal(rid) ==
    LET scored == SelectSeq(progress_logs,
                            LAMBDA log : /\ log.resolution_id = rid
                                         /\ log.verification_score # NoScore)
    IN  [i \in 1..Len(scored) |-> scored[i].verification_score]

\* C21: a refresh_living_roadmap that persists a likelihood score for a goal
\* with an entry that has a verification score persists the score computed
\* with the mean of the goal's verification scores as the verification
\* signal, not with the neutral 0.5.
C21_RefreshUsesScores ==
    [][\A u \in Callers, rid \in DOMAIN resolutions,
          reply \in LivingRoadmapReplies :
          (/\ resolutions[rid].user_id = u
           /\ \E m \in milestones : m.resolution_id = rid
           /\ ScoresOfGoal(rid) # <<>>
           /\ refresh_living_roadmap(u, rid, reply))
             => resolutions'[rid].goal_likelihood_score
                   \in calculate_goal_likelihood_score(
                          streak_data_of(rid), milestones_data_of(rid),
                          progress_data_of(rid), Scores(ScoresOfGoal(rid)))
      ]_vars

\* C25: the recovery analysis is requested only by a submission graded as
\* failed on a goal that has an in_progress milestone, and an accepted
\* submit_verification_quiz, with the analysis or without, changes no
\* milestone, no goal's current_milestone and no goal's status.
C25_AnalysisAdvisory ==
    [][\A u \in Callers, q \in QuizIds, a \in OneSheet,
          reply \in PlainGradingReplies, log_id \in LogIds :
          (/\ q <= Len(verification_quizzes)
           /\ ~verification_quizzes[q].is_completed
           /\ verification_quizzes[q].progress_log_id = log_id
           /\ submit_verification_quiz(u, q, a, reply))
             => /\ milestones' = milestones
                /\ \A rid \in DOMAIN resolutions :
                      /\ resolutions'[rid].current_milestone
                            = resolutions[rid].current_milestone
                      /\ resolutions'[rid].status = resolutions[rid].status
                /\ last_response'.analysis
                      => /\ verification_quizzes'[q].passed = "False"
                         /\ \E m \in milestones :
                               /\ m.resolution_id
                                     = progress_logs[log_id].resolution_id
                               /\ m.status = "in_progress"
      ]_vars

\* a failed submission asked for the analysis: the goal's in_progress
\* milestone is still the current one
C25_Witness ==
    /\ last_response.analysis
    /\ \E q \in 1..Len(verification_quizzes) :
          /\ verification_quizzes[q].is_completed
          /\ verification_quizzes[q].passed = "False"
    /\ \E m \in milestones :
          /\ m.status = "in_progress"
          /\ resolutions[m.resolution_id].current_milestone = m.order
          /\ resolutions[m.resolution_id].status = "active"

\* C26: regenerate_from_feedback on a feedback row of the caller whose rating
\* is not thumbs_down is rejected (400), calls no oracle, and leaves the
\* milestones, the weekly goals, the north stars and the feedback rows, the
\* was_regenerated flag among them, as they were.
C26_PositiveFeedbackRejected ==
    [][\A u \in Callers, fid \in FeedbackIds, reply \in RegenerationReplies :
          (/\ fid <= Len(ai_feedback)
           /\ ai_feedback[fid].user_id = u
           /\ ai_feedback[fid].rating # "thumbs_down"
           /\ regenerate_from_feedback(u, fid, reply))
             => /\ last_response'.code = 400
                /\ ~last_response'.oracle
                /\ milestones' = milestones
                /\ weekly_goals' = weekly_goals
                /\ north_star_goals' = north_star_goals
                /\ ai_feedback' = ai_feedback
      ]_vars

\* the regeneration of a thumbs_up feedback on an existing weekly goal was
\* rejected
C26_Witness ==
    /\ last_response.detail = "Can only regenerate from negative feedback"
    /\ \E fid \in 1..Len(ai_feedback) :
          /\ ai_feedback[fid].rating = "thumbs_up"
          /\ ai_feedback[fid].content_type = "weekly_goal"
          /\ ai_feedback[fid].content_id \in 1..Len(weekly_goals)
          /\ ~ai_feedback[fid].was_regenerated

\* the texts a regeneration writes: the answer of the stronger oracle or the
\* fallback of the agent
RegeneratedTexts == {"pro", "fallback"}

\* the artifact a feedback row refers to has been replaced in this step
ArtifactReplaced(f) ==
    CASE f.content_type = "weekly_goal" ->
            /\ f.content_id \in 1..Len(weekly_goals)
            /\ weekly_goals'[f.content_id].goal_text \in RegeneratedTexts
      [] f.content_type = "north_star" ->
            /\ f.content_id \in 1..Len(north_star_goals)
            /\ north_star_goals'[f.content_id].goal_statement
                  \in RegeneratedTexts
      [] OTHER ->
            /\ \E m \in milestones : m.id = f.content_id
            /\ \A m \in milestones' : m.id # f.content_id

\* C27: was_regenerated is a one-way flag: a new feedback row has it false, a
\* row that has it true keeps it true in every step, and it goes from false
\* to true only in a step that replaced the artifact the row refers to.
C27_WasRegeneratedOneWay ==
    [][/\ Len(ai_feedback') >= Len(ai_feedback)
       /\ \A fid \in 1..Len(ai_feedback') :
             IF fid > Len(ai_feedback)
             THEN ~ai_feedback'[fid].was_regenerated
             ELSE /\ ai_feedback[fid].was_regenerated
                        => ai_feedback'[fid].was_regenerated
                  /\ (~ai_feedback[fid].was_regenerated
                      /\ ai_feedback'[fid].was_regenerated)
                        => ArtifactReplaced(ai_feedback[fid])
      ]_vars

\* a generate or submit request is in flight in slot r
Verifying(r) ==
    /\ InFlight(r)
    /\ requests[r].op \in {"generate_progress_verification",
                           "submit_verification_quiz"}

\* C28: every generate_progress_verification and submit_verification_quiz
\* request ends, whatever its oracle answers, and a request issues the call
\* of its oracle (quiz generation, grading) once at most: it never calls
\* again after an answer.
C28_TerminatesOneAttempt ==
    /\ \A r \in RequestIds : Verifying(r) ~> ~InFlight(r)
    /\ [](\A r \in RequestIds : requests[r].calls <= 1)
    /\ [][\A r \in RequestIds :
            (Verifying(r) /\ requests[r].calls = 1)
               => \/ requests'[r] = requests[r]
                  \/ requests'[r].pc \in {"idle", "flushed"}
         ]_vars

\* a generate request whose oracle call raised has ended with the fallback
\* quiz stored, and a submission whose grading was malformed has ended
C28_Witness ==
    /\ \A r \in RequestIds : ~InFlight(r)
    /\ last_response.code = 500
    /\ last_response.oracle
    /\ \E q \in 1..Len(verification_quizzes) :
          /\ verification_quizzes[q].questions = FallbackQuiz.questions
          /\ ~verification_quizzes[q].is_completed

\* C29: in every committed state, the states between the steps of a
\* create_resolution and after one that failed included, every goal has its
\* Streak row.
C29_GoalHasStreak ==
    \A rid \in DOMAIN resolutions : rid \in DOMAIN streaks

\* C30: in every committed state, after a submission that was cancelled or
\* failed included, the entry of a quiz that is not completed is unverified
\* with no score, and the entry of a completed quiz has verified = quiz.passed
\* and verification_score = quiz.score.
C30_SubmissionAllOrNothing ==
    \A q \in 1..Len(verification_quizzes) :
        LET quiz == verification_quizzes[q]
            progress_log == progress_logs[quiz.progress_log_id]
        IN  IF quiz.is_completed
            THEN /\ PyBool(progress_log.verified) = quiz.passed
                 /\ progress_log.verification_score = quiz.score
            ELSE /\ ~progress_log.verified
                 /\ progress_log.verification_score = NoScore

\* what user u does not own: the goal is missing or another user's
NotOwnedGoal(u, rid) ==
    rid \notin DOMAIN resolutions \/ resolutions[rid].user_id # u

NotOwnedLog(u, log_id) ==
    \/ log_id \notin 1..Len(progress_logs)
    \/ NotOwnedGoal(u, progress_logs[log_id].resolution_id)

NotOwnedQuiz(u, quiz_id) ==
    \/ quiz_id \notin 1..Len(verification_quizzes)
    \/ NotOwnedLog(u, verification_quizzes[quiz_id].progress_log_id)

NotOwnedMilestone(u, mid) ==
    \A m \in milestones : m.id = mid => NotOwnedGoal(u, m.resolution_id)

\* the artifact a feedback row names
NotOwnedArtifact(u, f) ==
    CASE f.content_type = "weekly_goal" ->
            \/ f.content_id \notin 1..Len(weekly_goals)
            \/ NotOwnedGoal(u, weekly_goals[f.content_id].resolution_id)
      [] f.content_type = "north_star" ->
            \/ f.content_id \notin 1..Len(north_star_goals)
            \/ NotOwnedGoal(u, north_star_goals[f.content_id].resolution_id)
      [] OTHER -> NotOwnedMilestone(u, f.content_id)

NotOwnedFeedback(u, fid) ==
    \/ fid \notin 1..Len(ai_feedback)
    \/ ai_feedback[fid].user_id # u
    \/ NotOwnedArtifact(u, ai_feedback[fid])

\* no entity of any goal changes
EntitiesUnchanged ==
    UNCHANGED <<resolutions, progress_vars, roadmap_vars>>

RejectedNotFound == last_response'.code = 404 /\ EntitiesUnchanged

\* The five requests that name a goal, an entry, a quiz or a milestone, read
\* by contraposition: a step that changes an entity or answers anything but
\* 404 is no such request on something that is not the caller's.
NotOwnedRejected ==
    /\ \A u \in Users, rid \in ResolutionIds :
          (NotOwnedGoal(u, rid) /\ ~RejectedNotFound) => ~log_progress(u, rid)
    /\ \A u \in Users, log_id \in LogIds, reply \in PlainQuizReplies :
          (NotOwnedLog(u, log_id) /\ ~RejectedNotFound)
             => ~generate_progress_verification(u, log_id, reply)
    /\ \A u \in Users, quiz_id \in QuizIds, a \in OneSheet,
          reply \in PlainGradingReplies :
          (NotOwnedQuiz(u, quiz_id) /\ ~RejectedNotFound)
             => ~submit_verification_quiz(u, quiz_id, a, reply)
    /\ \A u \in Users, mid \in MilestoneIds :
          (NotOwnedMilestone(u, mid) /\ ~RejectedNotFound)
             => ~update_milestone(u, mid)
    /\ \A u \in Users, mid \in MilestoneIds :
          (NotOwnedMilestone(u, mid) /\ ~RejectedNotFound)
             => ~complete_milestone(u, mid)

\* C31 as stated: each of the six requests, when the goal, entry, quiz,
\* milestone, feedback row or artifact it names is not the caller's, answers
\* 404 and changes no entity of any goal.
C31_NotOwnedIsNotFound ==
    [][/\ NotOwnedRejected
       /\ \A u \in Users, fid \in FeedbackIds,
             reply \in PlainRegenerationReplies :
             (NotOwnedFeedback(u, fid) /\ ~RejectedNotFound)
                => ~regenerate_from_feedback(u, fid, reply)
      ]_vars

\* the answer to a regeneration of something that is not the caller's: 400
\* from the caller's own row whose rating is not thumbs_down, 404 otherwise
NotOwnedAnswer(u, fid) ==
    IF /\ fid \in 1..Len(ai_feedback)
       /\ ai_feedback[fid].user_id = u
       /\ ai_feedback[fid].rating # "thumbs_down"
    THEN 400 ELSE 404

\* C31, amended: the same, except that a regeneration from the caller's own
\* feedback row whose rating is not thumbs_down answers 400, whoever owns the
\* artifact; no entity of any goal changes in either case.
C31_NotOwnedChangesNothing ==
    [][/\ NotOwnedRejected
       /\ \A u \in Users, fid \in FeedbackIds,
             reply \in PlainRegenerationReplies :
             (/\ NotOwnedFeedback(u, fid)
              /\ ~(/\ EntitiesUnchanged
                   /\ last_response'.code = NotOwnedAnswer(u, fid)))
                => ~regenerate_from_feedback(u, fid, reply)
      ]_vars

\* the second user's regeneration from an own thumbs_down row that names the
\* first user's weekly goal has been answered "Weekly goal not found", with
\* the first user's entry, quiz, milestones and weekly goal in place
C31_Witness ==
    /\ last_response.detail = "Weekly goal not found"
    /\ \E fid \in 1..Len(ai_feedback) :
          /\ ai_feedback[fid].user_id = 2
          /\ ai_feedback[fid].rating = "thumbs_down"
          /\ ai_feedback[fid].content_type = "weekly_goal"
          /\ ai_feedback[fid].content_id \in 1..Len(weekly_goals)
          /\ resolutions[weekly_goals[ai_feedback[fid].content_id]
                            .resolution_id].user_id = 1
          /\ ~ai_feedback[fid].was_regenerated
    /\ Len(verification_quizzes) > 0
    /\ milestones # {}

\* the submission of outcomes fails the quiz of session sid: less than 70
\* percent of its questions are answered correctly
FailsQuiz(sid, outcomes) ==
    /\ sid \in 1..Len(daily_sessions)
    /\ sid \in DOMAIN quizzes
    /\ LET questions == quizzes[sid].questions
           right == {i \in DOMAIN questions : outcomes[i] = "correct"}
       IN  100 * Cardinality(right) < 70 * Len(questions)
              \/ Len(questions) = 0

\* it fails the quiz with a question answered wrongly: a weak concept
FailsQuizWithWeak(sid, outcomes) ==
    /\ FailsQuiz(sid, outcomes)
    /\ \E i \in DOMAIN quizzes[sid].questions : outcomes[i] = "wrong"

\* one row more in daily_sessions: a reinforcement session of the goal and
\* of the day of session sid
ReinforcementInserted(sid) ==
    /\ Len(daily_sessions') = Len(daily_sessions) + 1
    /\ SubSeq(daily_sessions', 1, Len(daily_sessions)) = daily_sessions
    /\ daily_sessions'[Len(daily_sessions')] =
          [resolution_id |-> daily_sessions[sid].resolution_id,
           day_number |-> daily_sessions[sid].day_number,
           is_reinforcement |-> TRUE]

\* C32: a submission that fails the quiz of a daily session leaves the
\* goal's current_day as it was; when it fails with a weak concept and the
\* adaptation plan has reinforcement content, submit_quiz inserts one
\* reinforcement session whose day_number is the failed session's.
C32_FailedQuizInsertsReinforcement ==
    [][\A u \in Callers, sid \in SessionIds, adaptation \in AdaptationReplies :
         \A outcomes \in AnswerOutcomes(sid) :
            (FailsQuiz(sid, outcomes)
               /\ submit_quiz(u, sid, outcomes, adaptation))
            => /\ current_day' = current_day
               /\ (FailsQuizWithWeak(sid, outcomes)
                     /\ ~adaptation.raises
                     /\ adaptation.reinforcement_content)
                  => ReinforcementInserted(sid)]_vars

\* C33: every LearningMetric row has 0 <= correct_count <= attempts,
\* attempts >= 1, mastery_score = correct_count / attempts, and
\* needs_reinforcement exactly when mastery_score < 0.7.
C33_MetricConsistent ==
    \A m \in learning_metrics :
        /\ 0 <= m.correct_count
        /\ m.correct_count <= m.attempts
        /\ m.attempts >= 1
        /\ m.mastery_score.num * m.attempts
              = m.correct_count * m.mastery_score.den
        /\ m.needs_reinforcement
              <=> 10 * m.mastery_score.num < 7 * m.mastery_score.den

\* a concept tested three times, the last two correctly, needs reinforcement
\* still; another was never answered wrongly
C33_Witness ==
    /\ \E m \in learning_metrics :
          m.attempts = 3 /\ m.correct_count = 2 /\ m.needs_reinforcement
    /\ \E m \in learning_metrics :
          m.attempts > 1 /\ m.correct_count = m.attempts
             /\ ~m.needs_reinforcement

RegeneratedFrom(u, fid) ==
    /\ fid \in 1..Len(ai_feedback)
    /\ ai_feedback[fid].user_id = u
    /\ ai_feedback[fid].rating = "thumbs_down"
    /\ ai_feedback[fid].was_regenerated

\* the oracle answers a plan that carries what the handler reads of it
PlanWithContent(f, reply) ==
    IF f.content_type = "roadmap"
    THEN reply.roadmap.kind = "json" /\ reply.roadmap.is_dict
    ELSE /\ reply.artifact.kind = "json"
         /\ reply.artifact.is_dict
         /\ reply.artifact.has_text

\* the text of the artifact a weekly_goal or north_star row refers to
ArtifactText(f, goals, stars) ==
    IF f.content_type = "weekly_goal"
    THEN goals[f.content_id].goal_text
    ELSE stars[f.content_id].goal_statement

C35_CompletedGoalAllCompleted ==
    \A rid \in DOMAIN resolutions :
        resolutions[rid].status = "completed"
           => \A m \in milestones :
                 m.resolution_id = rid => m.status = "completed"

\* C36: the current_milestone of an active goal, when it is not zero, is the
\* order of a milestone of the goal, and that milestone is the goal's
\* in_progress milestone.
C36_CurrentMilestoneInProgress ==
    \A rid \in DOMAIN resolutions :
        (resolutions[rid].status = "active"
           /\ resolutions[rid].current_milestone # 0)
        => /\ \E m \in milestones :
                 /\ m.resolution_id = rid
                 /\ m.order = resolutions[rid].current_milestone
                 /\ m.status = "in_progress"
           /\ \A m \in milestones :
                 (m.resolution_id = rid /\ m.status = "in_progress")
                    => m.order = resolutions[rid].current_milestone

\* C37: complete_milestone on a milestone that is completed already changes
\* the status of no milestone, promotes no pending milestone and leaves the
\* goal's current_milestone and status as they were.
C37_CompleteIdempotent ==
    [][\A u \in Callers, mid \in MilestoneIds :
          \A n \in {m \in milestones : m.id = mid} :
             (/\ n.resolution_id \in DOMAIN resolutions
              /\ resolutions[n.resolution_id].user_id = u
              /\ n.status = "completed"
              /\ complete_milestone(u, mid))
                => /\ \A m \in milestones :
                        \E t \in milestones' :
                           t.id = m.id /\ t.status = m.status
                   /\ resolutions'[n.resolution_id].current_milestone
                         = resolutions[n.resolution_id].current_milestone
                   /\ resolutions'[n.resolution_id].status
                         = resolutions[n.resolution_id].status
      ]_vars

\* the progress entries of goal rid that are verified
VerifiedEntries(rid) ==
    {i \in 1..Len(progress_logs) :
        progress_logs[i].resolution_id = rid /\ progress_logs[i].verified}

\* C38: with one request at a time, the total_verified_days of a goal that
\* has a Streak is the number of its progress entries that are verified, and
\* a verified entry has a quiz that is completed and passed.
C38_VerifiedDaysAreVerifiedEntries ==
    /\ \A rid \in DOMAIN streaks :
          streaks[rid].total_verified_days
             = Cardinality(VerifiedEntries(rid))
    /\ \A i \in 1..Len(progress_logs) :
          progress_logs[i].verified
             => \E q \in 1..Len(verification_quizzes) :
                   /\ verification_quizzes[q].progress_log_id = i
                   /\ verification_quizzes[q].is_completed
                   /\ verification_quizzes[q].passed = "True"

\* a goal with a verified entry, an entry whose quiz failed and an entry
\* without a quiz
C38_Witness ==
    \E rid \in DOMAIN streaks :
        /\ streaks[rid].total_verified_days = 1
        /\ \E i, j, k \in 1..Len(progress_logs) :
              /\ progress_logs[i].resolution_id = rid
              /\ progress_logs[i].verified
              /\ progress_logs[j].resolution_id = rid
              /\ ~progress_logs[j].verified
              /\ \E q \in 1..Len(verification_quizzes) :
                    /\ verification_quizzes[q].progress_log_id = j
                    /\ verification_quizzes[q].passed = "False"
              /\ progress_logs[k].resolution_id = rid
              /\ \A q \in 1..Len(verification_quizzes) :
                    verification_quizzes[q].progress_log_id # k

=============================================================================
